---- MODULE Spec2Model ----
(***************************************************************************)
(* A model of the version-control engine of git_python_clone_commandline:  *)
(* the Commit manager (core/commit.py), the Branch registry                *)
(* (core/branch.py), the History log (core/history.py), the Staging index  *)
(* (core/staging.py), the Merge engine (core/merge.py), the file diff of   *)
(* core/diff.py and the ignore matcher of core/ignore.py.                  *)
(*                                                                         *)
(* A path is the sequence of its components, so that the directory of a    *)
(* path and "top level" are computed and not assumed.  File bytes are      *)
(* drawn from Contents; a missing file is Absent.                          *)
(***************************************************************************)
EXTENDS Integers, Sequences, FiniteSets, TLC

\* ------------------------------------------------------------------ bounds

\* Largest reading of datetime.now() the model takes.
MaxClock == 2

\* Most records the model lets the history log hold.
MaxHistory == 1

\* Most bytes of a file given to generate_file_diff.
MaxFileLen == 2

\* Most patterns the model loads into an IgnoreManager.
MaxPatterns == 2

\* Most records of the history log whose queries the model takes.
MaxLog == 2

\* Most files of the object store.
MaxObjects == 4

\* Most calls of record_commit one of two concurrent processes makes.
MaxCalls == 1

\* The identifiers uuid4 draws for a repository are 1 .. MaxUUID.
MaxUUID == 2

\* ------------------------------------------------------------ value spaces

Paths == {<<"a.txt">>, <<"sub", "b.txt">>}

Contents == {"v2", "v3"}

Absent == "absent"

\* Python's None where a hash, a path or a returned value is expected: the
\* empty sequence, which like None is false in a condition.
None == <<>>

\* Python's None where a branch name is expected.
NoBranch == ""

\* Python's None where file content is expected (a key a diff item lacks).
NoContent == "None"

\* A document on disk: one that does not exist, and one with a content.
NoFile == [exists |-> FALSE, content |-> <<>>]

File(content) == [exists |-> TRUE, content |-> content]

Messages == {"c1"}

Authors == {"Anonymous"}

Times == 1..MaxClock

\* Branch names given to the registry's operations.
BranchNames == {"main", "feat"}

\* Names given to create_branch: those, the empty name and a name that holds
\* the separator.
CreateNames == BranchNames \cup {"", "feat/x"}

\* The characters of a name.
Chars(name) ==
    CASE name = "main" -> <<"m", "a", "i", "n">>
      [] name = "feat" -> <<"f", "e", "a", "t">>
      [] name = "feat/x" -> <<"f", "e", "a", "t", "/", "x">>
      [] name = "tmp" -> <<"t", "m", "p">>
      [] name = "repo" -> <<"r", "e", "p", "o">>
      [] name = "repo_x" -> <<"r", "e", "p", "o", "_", "x">>
      [] name = "other" -> <<"o", "t", "h", "e", "r">>
      [] name = "sub" -> <<"s", "u", "b">>
      [] name = "a.txt" -> <<"a", ".", "t", "x", "t">>
      [] name = "b.txt" -> <<"b", ".", "t", "x", "t">>
      [] name = ".core" -> <<".", "c", "o", "r", "e">>
      [] name = ".core_x" -> <<".", "c", "o", "r", "e", "_", "x">>
      [] name = "HEAD" -> <<"H", "E", "A", "D">>
      [] name = "config.json" -> <<"c", "o", "n", "f", "i", "g", ".", "j", "s", "o", "n">>
      [] name = "branches" -> <<"b", "r", "a", "n", "c", "h", "e", "s">>
      [] name = "index" -> <<"i", "n", "d", "e", "x">>
      [] name = ".dscsignore" -> <<".", "d", "s", "c", "s", "i", "g", "n", "o", "r", "e">>
      [] name = "*.txt" -> <<"*", ".", "t", "x", "t">>
      [] name = "sub/" -> <<"s", "u", "b", "/">>
      [] name = "missing.txt" -> <<"m", "i", "s", "s", "i", "n", "g", ".", "t", "x", "t">>
      [] OTHER -> <<>>

\* os.path.dirname of a relative path: the path without its last component.
dirname(p) == SubSeq(p, 1, Len(p) - 1)

\* The directories a path lies under (one level of nesting in Paths).
ParentDirs(p) == IF Len(p) > 1 THEN {dirname(p)} ELSE {}

\* The files of a tree: the paths that hold bytes.
FilesOf(tree) == {p \in Paths : tree[p] # Absent}

EmptyTree == [p \in Paths |-> Absent]

\* hashlib.sha256 over a file's bytes: a digest that names the bytes.
_calculate_file_hash(content) == <<"sha256", content>>

\* sha256(f"{message}{author}{now}")[:8]: the digest of the three inputs.
commit_hash_of(message, author, now) == <<message, author, now>>

\* Commit hashes given to update_branch_head and record_commit: the hash of
\* the first commit create_commit can produce, and the hash of the branch
\* tests, which names no commit.
HeadArgs == {commit_hash_of("c1", "Anonymous", 1), <<"abc123">>}

CommitHashes == {commit_hash_of(m, a, t) : m \in Messages, a \in Authors, t \in Times}

\* ------------------------------------------------------------------- state

VARIABLES
    wt,           \* working tree: path -> bytes or Absent
    wtDirs,       \* directories that exist in the working tree
    staging_dir,  \* .source-control/staging: path -> staged copy or Absent
    stagedAt,     \* history variable: the working-tree bytes of a staged path when it was staged
    commits,      \* .source-control/commits: commit hash -> commit object
    stray_files,  \* the files of .source-control that stage_file wrote outside its staging directory
    clock,        \* the last reading of datetime.now()
    branches_config, \* branches.json: [current_branch, branches: name -> [head_commit, base_branch]]
    history,      \* commit_history.json: the sequence of commit records
    index,        \* the Staging index document: path -> content hash or None
    staged_blobs, \* the files of the Staging store, each named by its content hash
    branch_refs,  \* the names that have a file in the repository's branches directory
    HEAD,         \* the repository's HEAD file: the branch its ref names
    objects,      \* the repository's objects directory: identifier -> object file
    config,       \* the repository's config.json: [version, id]
    processes,    \* the processes inside record_commit: [pc, loaded, done : process -> ..., overlapped]
    conflicts_file, \* merges/conflicts.json: File(a sequence of conflicts), or NoFile
    result        \* outcome of the last call: [op, status, commit, args, value]

vars == <<wt, wtDirs, staging_dir, stagedAt, commits, stray_files, clock, branches_config, history,
          index, staged_blobs, branch_refs, HEAD, objects, processes, config, conflicts_file, result>>

\* The documents of the components an operation does not belong to.
commitVars == <<staging_dir, stagedAt, commits, stray_files>>
treeVars == <<wt, wtDirs>>
stagingVars == <<index, staged_blobs>>
mergeVars == <<branch_refs, HEAD, objects, processes, config, conflicts_file>>

\* The processes that use one repository at a time.
Procs == {1, 2}

\* No process is inside a call.  `overlapped` is a history variable: a process
\* has loaded the history while the other was between its load and the end
\* of its write.
NoProcesses ==
    [pc |-> [p \in Procs |-> "idle"],
     loaded |-> [p \in Procs |-> <<>>],
     done |-> [p \in Procs |-> 0],
     overlapped |-> FALSE]

\* The outcome of a call: the operation, "ok" or the exception raised, the
\* commit it wrote, its arguments and the value it returned.
Result(op, status, commit, args, value) ==
    [op |-> op, status |-> status, commit |-> commit, args |-> args, value |-> value]

Res(op, status, commit) == Result(op, status, commit, <<>>, None)

\* Commit.get_staged_files: every file found by walking the staging directory.
get_staged_files == FilesOf(staging_dir)

\* ------------------------------------------------------------ working tree

\* The user writes bytes to a file of the working tree, creating its directory.
write_file(p, c) ==
    /\ wt' = [wt EXCEPT ![p] = c]
    /\ wtDirs' = wtDirs \cup ParentDirs(p)
    /\ result' = Res("write_file", "ok", None)
    /\ UNCHANGED <<stagingVars, mergeVars, staging_dir, stagedAt, commits, stray_files, clock, branches_config, history>>

\* ------------------------------------------------------------------ Commit

\* The directory of the repository.
RepoPath == <<"tmp", "repo">>

\* The files that exist outside the repository, as paths from its root: one
\* in a directory beside it whose name begins with the repository's name, one
\* in a directory of another name.
OutsideFiles == {<<"..", "repo_x", "a.txt">>, <<"..", "other", "a.txt">>}

\* The paths outside the repository given to stage_file: the files there
\* and a path that names nothing.
OutsidePaths == OutsideFiles \cup {<<"..", "other", "missing.txt">>}

\* os.path.abspath of a path given from the repository root.
abspath(p) == IF p[1] = ".." THEN dirname(RepoPath) \o Tail(p) ELSE RepoPath \o p

\* The string of an absolute path, as its characters.
RECURSIVE path_string(_)
path_string(components) ==
    IF components = <<>> THEN <<>>
    ELSE <<"/">> \o Chars(Head(components)) \o path_string(Tail(components))

\* str.startswith.
str_startswith(string, prefix) ==
    Len(string) >= Len(prefix) /\ SubSeq(string, 1, Len(prefix)) = prefix

\* os.path.exists of a file path.
exists(p) == IF p \in Paths THEN wt[p] # Absent ELSE p \in OutsideFiles

\* Commit.stage_file.  The path is refused when the string of its absolute
\* path does not begin with the string of the repository's, or when nothing
\* exists there; otherwise the file is copied to staging_dir joined with its
\* path from the repository root, which for a path that begins with '..'
\* lies in .source-control beside the staging directory.
stage_file(p) ==
    IF ~str_startswith(path_string(abspath(p)), path_string(RepoPath)) \/ ~exists(p)
    THEN /\ result' = Result("stage_file", "ValueError", None, <<p>>, None)
         /\ UNCHANGED <<stagingVars, mergeVars, wt, wtDirs, staging_dir, stagedAt, commits, stray_files, clock, branches_config, history>>
    ELSE IF p \in Paths
    THEN /\ staging_dir' = [staging_dir EXCEPT ![p] = wt[p]]
         /\ stagedAt' = [stagedAt EXCEPT ![p] = wt[p]]
         /\ result' = Result("stage_file", "ok", None, <<p>>, None)
         /\ UNCHANGED <<stagingVars, mergeVars, wt, wtDirs, commits, stray_files, clock, branches_config, history>>
    ELSE /\ stray_files' = stray_files \cup {Tail(p)}
         /\ result' = Result("stage_file", "ok", None, <<p>>, None)
         /\ UNCHANGED <<stagingVars, mergeVars, wt, wtDirs, staging_dir, stagedAt, commits, clock, branches_config, history>>

\* Commit._clear_staging_area: os.walk top-down; at the staging root every file
\* is unlinked, then every directory is removed with os.rmdir, which raises
\* OSError on a directory that still holds files.
_clear_staging_area_raises(staged) == \E p \in FilesOf(staged) : Len(p) > 1

_clear_staging_area(staged) ==
    [p \in Paths |-> IF Len(p) = 1 THEN Absent ELSE staged[p]]

\* A faulty variant: the hash is computed over the working-tree file, not the staged copy.
files_metadata_of_working_tree(staged) ==
    {[path |-> p, hash |-> _calculate_file_hash(wt[p])] : p \in FilesOf(staged)}

\* The files list of the commit metadata: one (path, hash) per staged file, the
\* hash computed over the staged copy (src_path).
files_metadata(staged) ==
    {[path |-> p, hash |-> _calculate_file_hash(staged[p])] : p \in FilesOf(staged)}

\* A faulty variant: the commit directory is made with exist_ok, so that a
\* commit of a hash the store holds replaces the stored object.
write_commit_overwriting(message, author, now) ==
    LET commit_hash == commit_hash_of(message, author, now)
        written == [hash |-> commit_hash,
                    message |-> message,
                    author |-> author,
                    files |-> files_metadata(staging_dir),
                    tree |-> staging_dir]
    IN  /\ clock' = now
        /\ UNCHANGED <<stagingVars, mergeVars, branches_config, history>>
        /\ commits' = [h \in DOMAIN commits \cup {commit_hash} |->
                          IF h = commit_hash THEN written ELSE commits[h]]
        /\ staging_dir' = _clear_staging_area(staging_dir)
        /\ stagedAt' = _clear_staging_area(stagedAt)
        /\ result' = Res("create_commit",
                         IF _clear_staging_area_raises(staging_dir)
                         THEN "OSError" ELSE "ok",
                         commit_hash)
        /\ UNCHANGED <<wt, wtDirs, stray_files>>

\* Commit.create_commit past its check of the staged files: the commit hash,
\* the commit directory, the copies, the metadata, the clearing of staging.
write_commit(message, author, now) ==
    LET commit_hash == commit_hash_of(message, author, now)
    IN  /\ clock' = now
        /\ UNCHANGED <<stagingVars, mergeVars, branches_config, history>>
        /\ IF commit_hash \in DOMAIN commits
           THEN \* os.makedirs(commit_dir): the directory exists
                /\ result' = Res("create_commit", "FileExistsError", None)
                /\ UNCHANGED <<wt, wtDirs, staging_dir, stagedAt, commits, stray_files>>
           ELSE /\ commits' = commits @@
                       (commit_hash :> [hash |-> commit_hash,
                                        message |-> message,
                                        author |-> author,
                                        files |-> files_metadata(staging_dir),
                                        tree |-> staging_dir])
                /\ staging_dir' = _clear_staging_area(staging_dir)
                /\ stagedAt' = _clear_staging_area(stagedAt)
                /\ result' = Res("create_commit",
                                 IF _clear_staging_area_raises(staging_dir)
                                 THEN "OSError" ELSE "ok",
                                 commit_hash)
                /\ UNCHANGED <<wt, wtDirs, stray_files>>

\* A faulty variant: no check that something is staged.
create_commit_unchecked(message, author, now) == write_commit(message, author, now)

\* Commit.create_commit.
create_commit(message, author, now) ==
    IF get_staged_files = {}
    THEN /\ result' = Res("create_commit", "ValueError", None)
         /\ UNCHANGED <<stagingVars, mergeVars, wt, wtDirs, staging_dir, stagedAt, commits, stray_files, clock, branches_config, history>>
    ELSE write_commit(message, author, now)

\* Commit.get_commit_details: the metadata document of the commit directory
\* named by the hash, or None when there is none.
get_commit_details(commit_hash) ==
    IF commit_hash \notin DOMAIN commits
    THEN None
    ELSE [hash |-> commits[commit_hash].hash,
          message |-> commits[commit_hash].message,
          author |-> commits[commit_hash].author,
          files |-> commits[commit_hash].files]

\* os.path.basename of a relative path: its last component.
basename(p) == p[Len(p)]

\* The files Commit.restore_commit_files copies from a commit directory: at
\* every directory of the walk 'metadata.json' is removed from the list of
\* files, and every other file is copied.
restored_files(tree) ==
    {p \in DOMAIN tree : tree[p] # Absent /\ basename(p) # "metadata.json"}

\* Commit.restore_commit_files with the repository root as destination.
restore_commit_files(commit_hash) ==
    /\ UNCHANGED <<stagingVars, mergeVars, commitVars, clock, branches_config, history>>
    /\ IF commit_hash \notin DOMAIN commits
       THEN /\ result' = Result("restore_commit_files", "ValueError", None,
                                <<commit_hash>>, None)
            /\ UNCHANGED treeVars
       ELSE LET tree == commits[commit_hash].tree
            IN  /\ wt' = [p \in DOMAIN wt |->
                             IF p \in restored_files(tree) THEN tree[p] ELSE wt[p]]
                /\ wtDirs' = wtDirs \cup UNION {ParentDirs(p) : p \in restored_files(tree)}
                /\ result' = Result("restore_commit_files", "ok", None,
                                    <<commit_hash>>, None)

\* ------------------------------------------------------------- Repository

\* The identifiers uuid.uuid4() draws.
ObjectIds == 1..MaxObjects

\* The object types of store_object.
ObjectTypes == {"blob", "tree", "commit"}

\* An object file that was opened for writing and holds no bytes.
EmptyObject == [metadata |-> None, content |-> NoContent]

\* Repository.store_object: a fresh uuid4 names the object file, the file is
\* opened with 'wb', and json.dump of the metadata into the binary file
\* raises TypeError before a byte is written; the empty file stays.
store_object(content, object_type) ==
    /\ \E object_hash \in ObjectIds \ DOMAIN objects :
           objects' = [id \in DOMAIN objects \cup {object_hash} |->
                          IF id = object_hash THEN EmptyObject ELSE objects[id]]
    /\ result' = Result("store_object", "TypeError", None, <<content, object_type>>, None)
    /\ UNCHANGED <<stagingVars, treeVars, commitVars, clock, branches_config, history,
                   branch_refs, HEAD, processes, config, conflicts_file>>

\* Repository.get_object: the metadata line and the content of the object
\* file; a missing file ends the call in open, a file without a metadata
\* line in json.loads.
get_object(object_hash) ==
    /\ result' = IF object_hash \notin DOMAIN objects
                 THEN Result("get_object", "FileNotFoundError", None, <<object_hash>>, None)
                 ELSE IF objects[object_hash] = EmptyObject
                 THEN Result("get_object", "JSONDecodeError", None, <<object_hash>>, None)
                 ELSE Result("get_object", "ok", None, <<object_hash>>,
                             <<objects[object_hash]>>)
    /\ UNCHANGED <<stagingVars, mergeVars, treeVars, commitVars, clock,
                   branches_config, history>>

\* The identifiers uuid.uuid4() can return.
UUIDs == 1 .. MaxUUID

\* Repository.initialize with the identifier uuid4 draws.  The directories are
\* made with exist_ok; config.json, HEAD and the file of main in the branches
\* directory are written anew on every call.  (created_at, the ctime of the
\* repository's directory, is left out of the config.)
initialize(id) ==
    /\ config' = [version |-> "0.1.0", id |-> id]
    /\ HEAD' = "main"
    /\ branch_refs' = branch_refs \cup {"main"}
    /\ result' = Result("initialize", "ok", None, <<>>, None)
    /\ UNCHANGED <<stagingVars, treeVars, commitVars, clock, branches_config,
                   history, objects, processes, conflicts_file>>

\* Repository.set_current_branch: HEAD is rewritten with the name as given.
set_current_branch(branch_name) ==
    /\ HEAD' = branch_name
    /\ result' = Result("set_current_branch", "ok", None, <<branch_name>>, None)
    /\ UNCHANGED <<stagingVars, treeVars, commitVars, clock, branches_config,
                   history, branch_refs, objects, processes, config, conflicts_file>>

\* ------------------------------------------------------------------ Branch

\* A faulty variant: the document names a current branch it does not hold.
initial_branches_on_master ==
    [current_branch |-> "master",
     branches |-> ("main" :> [head_commit |-> None, base_branch |-> NoBranch])]

\* Branch._initialize_branches_file: the initial branches document.
initial_branches ==
    [current_branch |-> "main",
     branches |-> ("main" :> [head_commit |-> None, base_branch |-> NoBranch])]

\* Branch.list_branches()['branches']: the registered branch names.
list_branches == DOMAIN branches_config.branches

\* Branch.get_current_branch.
get_current_branch == branches_config.current_branch

\* Branch.get_branch_head of a registered branch.
get_branch_head(branch_name) == branches_config.branches[branch_name].head_commit

\* Branch.create_branch.  The module imports the package datetime and then
\* calls datetime.now(), which has no such attribute: every call that passes
\* the validation raises AttributeError before the document is rewritten.
\* A faulty variant: the name is not validated.
create_branch_any_name(branch_name, base_branch) ==
    LET base == IF base_branch = NoBranch THEN get_current_branch ELSE base_branch
    IN  /\ result' = Result("create_branch",
                            IF branch_name \in list_branches THEN "ValueError"
                            ELSE IF base \notin list_branches THEN "ValueError"
                            ELSE "AttributeError",
                            None, <<branch_name, base_branch>>, None)
        /\ UNCHANGED <<stagingVars, mergeVars, treeVars, commitVars, clock,
                       branches_config, history>>

create_branch(branch_name, base_branch) ==
    LET base == IF base_branch = NoBranch THEN get_current_branch ELSE base_branch
        invalid_name ==
            \/ Chars(branch_name) = <<>>
            \/ \E i \in DOMAIN Chars(branch_name) : Chars(branch_name)[i] = "/"
    IN  /\ result' = Result("create_branch",
                            IF invalid_name THEN "ValueError"
                            ELSE IF branch_name \in list_branches THEN "ValueError"
                            ELSE IF base \notin list_branches THEN "ValueError"
                            ELSE "AttributeError",
                            None, <<branch_name, base_branch>>, None)
        /\ UNCHANGED <<stagingVars, mergeVars, treeVars, commitVars, clock,
                       branches_config, history>>

\* A faulty variant: the name is stored without a look at the branches.
switch_branch_unvalidated(branch_name) ==
    /\ branches_config' = [branches_config EXCEPT !.current_branch = branch_name]
    /\ result' = Result("switch_branch", "ok", None, <<branch_name>>, branch_name)
    /\ UNCHANGED <<stagingVars, mergeVars, treeVars, commitVars, clock, history>>

\* Branch.switch_branch.
switch_branch(branch_name) ==
    IF branch_name \notin list_branches
    THEN /\ result' = Result("switch_branch", "ValueError", None, <<branch_name>>, None)
         /\ UNCHANGED <<stagingVars, mergeVars, treeVars, commitVars, clock, branches_config, history>>
    ELSE /\ branches_config' = [branches_config EXCEPT !.current_branch = branch_name]
         /\ result' = Result("switch_branch", "ok", None, <<branch_name>>, branch_name)
         /\ UNCHANGED <<stagingVars, mergeVars, treeVars, commitVars, clock, history>>

\* A faulty variant: the hash becomes the head of every branch.
update_branch_head_of_all(branch_name, commit_hash) ==
    IF branch_name \notin list_branches
    THEN /\ result' = Result("update_branch_head", "ValueError", None,
                             <<branch_name, commit_hash>>, None)
         /\ UNCHANGED <<stagingVars, mergeVars, treeVars, commitVars, clock, branches_config, history>>
    ELSE /\ branches_config' =
                [branches_config EXCEPT !.branches =
                    [b \in list_branches |->
                        [branches_config.branches[b] EXCEPT !.head_commit = commit_hash]]]
         /\ result' = Result("update_branch_head", "ok", None,
                             <<branch_name, commit_hash>>, None)
         /\ UNCHANGED <<stagingVars, mergeVars, treeVars, commitVars, clock, history>>

\* Branch.update_branch_head: the hash is stored as given.
update_branch_head(branch_name, commit_hash) ==
    IF branch_name \notin list_branches
    THEN /\ result' = Result("update_branch_head", "ValueError", None,
                             <<branch_name, commit_hash>>, None)
         /\ UNCHANGED <<stagingVars, mergeVars, treeVars, commitVars, clock, branches_config, history>>
    ELSE /\ branches_config' =
                [branches_config EXCEPT !.branches[branch_name].head_commit = commit_hash]
         /\ result' = Result("update_branch_head", "ok", None,
                             <<branch_name, commit_hash>>, None)
         /\ UNCHANGED <<stagingVars, mergeVars, treeVars, commitVars, clock, history>>

\* ----------------------------------------------------------------- History

\* A faulty variant: the new record is put before the stored ones.
record_commit_at_front(commit_hash, branch, message, files_changed, parent_hash, now) ==
    /\ clock' = now
    /\ history' = <<[hash |-> commit_hash,
                     branch |-> branch,
                     message |-> message,
                     timestamp |-> now,
                     files_changed |-> files_changed,
                     parent |-> parent_hash]>> \o history
    /\ result' = Result("record_commit", "ok", None, <<commit_hash, branch>>, None)
    /\ UNCHANGED <<stagingVars, mergeVars, treeVars, commitVars, branches_config>>

\* History.record_commit: read the document, append one record, write it back.
record_commit(commit_hash, branch, message, files_changed, parent_hash, now) ==
    /\ clock' = now
    /\ history' = Append(history, [hash |-> commit_hash,
                                   branch |-> branch,
                                   message |-> message,
                                   timestamp |-> now,
                                   files_changed |-> files_changed,
                                   parent |-> parent_hash])
    /\ result' = Result("record_commit", "ok", None, <<commit_hash, branch>>, None)
    /\ UNCHANGED <<stagingVars, mergeVars, treeVars, commitVars, branches_config>>

\* Python's None where a limit is expected.
NoLimit == -1

\* The limits given to get_commit_history.
Limits == {NoLimit} \cup (0..MaxLog)

\* list.sort(key=timestamp, reverse=True): the records by falling timestamp,
\* records of one timestamp in the order they had.
sort_by_timestamp(records) ==
    LET n == Len(records)
        order == CHOOSE f \in [1..n -> 1..n] :
                    \A i, j \in 1..n :
                        i < j => \/ records[f[i]].timestamp > records[f[j]].timestamp
                                 \/ /\ records[f[i]].timestamp = records[f[j]].timestamp
                                    /\ f[i] < f[j]
    IN  [i \in 1..n |-> records[order[i]]]

\* History.get_commit_history: the stored records, those of the branch when
\* one is given, sorted, and cut to the limit when the limit is true (neither
\* None nor 0).
get_commit_history(branch, limit) ==
    LET of_branch(commit) == commit.branch = branch
        filtered == IF branch # NoBranch THEN SelectSeq(history, of_branch) ELSE history
        sorted == sort_by_timestamp(filtered)
    IN  IF limit # NoLimit /\ limit # 0 /\ limit < Len(sorted)
        THEN SubSeq(sorted, 1, limit)
        ELSE sorted

\* History.get_latest_commit: the first record of the history, or None.
get_latest_commit(branch) ==
    IF get_commit_history(branch, NoLimit) # <<>>
    THEN <<get_commit_history(branch, NoLimit)[1]>>
    ELSE None

\* History.get_commit_by_hash: the first stored record of the hash, or None.
get_commit_by_hash(commit_hash) ==
    LET found == {i \in DOMAIN history : history[i].hash = commit_hash}
    IN  IF found = {} THEN None
        ELSE <<history[CHOOSE i \in found : \A j \in found : i <= j]>>

\* The queries of the history, which read the document and write nothing.
history_query(op, args, value) ==
    /\ result' = Result(op, "ok", None, args, value)
    /\ UNCHANGED <<stagingVars, mergeVars, treeVars, commitVars, clock,
                   branches_config, history>>

query_commit_history(branch, limit) ==
    history_query("get_commit_history", <<branch, limit>>, get_commit_history(branch, limit))

query_latest_commit(branch) ==
    history_query("get_latest_commit", <<branch>>, get_latest_commit(branch))

query_commit_by_hash(commit_hash) ==
    history_query("get_commit_by_hash", <<commit_hash>>, get_commit_by_hash(commit_hash))

\* commit_history.json as open(history_file, 'w') leaves it before anything is
\* written: a file of no bytes, which holds no JSON value.
Truncated == <<[truncated |-> TRUE]>>

\* History.record_commit up to the opening of the document for writing: the
\* stored records are loaded, the new one is appended to the loaded list, and
\* open(history_file, 'w') empties the file.  A document that holds no JSON
\* value ends the call in json.load.
record_commit_open(commit_hash, branch, message, files_changed, parent_hash, now) ==
    /\ result.status # "writing"
    /\ clock' = now
    /\ UNCHANGED <<stagingVars, mergeVars, treeVars, commitVars, branches_config>>
    /\ IF history = Truncated
       THEN /\ result' = Result("record_commit", "JSONDecodeError", None,
                                <<commit_hash, branch>>, None)
            /\ UNCHANGED history
       ELSE /\ history' = Truncated
            /\ result' = Result("record_commit", "writing", None,
                                <<commit_hash, branch>>,
                                Append(history, [hash |-> commit_hash,
                                                 branch |-> branch,
                                                 message |-> message,
                                                 timestamp |-> now,
                                                 files_changed |-> files_changed,
                                                 parent |-> parent_hash]))

\* History.record_commit from json.dump on: the list is written to the opened
\* file and the file is closed.
record_commit_dump ==
    /\ result.op = "record_commit"
    /\ result.status = "writing"
    /\ history' = result.value
    /\ result' = Result("record_commit", "ok", None, result.args, None)
    /\ UNCHANGED <<stagingVars, mergeVars, treeVars, commitVars, clock, branches_config>>

\* The process is killed between the opening of the document and the end of
\* the write; what it held in memory is lost, the file stays as it is.
crash ==
    /\ result.status = "writing"
    /\ result' = Result("crash", "killed", None, result.args, None)
    /\ UNCHANGED <<stagingVars, mergeVars, treeVars, commitVars, clock,
                   branches_config, history>>

\* History.record_commit in a process, up to the end of its read: the record is
\* built with the clock's reading, the document is loaded (json.load fails on
\* a file another process has emptied, and the exception ends the process)
\* and the record is appended to the loaded list.
record_commit_load(p, commit_hash, branch, message, files_changed, parent_hash, now) ==
    /\ processes.pc[p] = "idle"
    /\ clock' = now
    /\ UNCHANGED <<stagingVars, treeVars, commitVars, branches_config, history,
                   branch_refs, HEAD, objects, config, conflicts_file>>
    /\ IF history = Truncated
       THEN /\ result' = Result("record_commit", "JSONDecodeError", None,
                                <<p, commit_hash, branch>>, None)
            /\ processes' = [processes EXCEPT !.pc[p] = "failed"]
       ELSE /\ result' = Result("record_commit", "loaded", None,
                                <<p, commit_hash, branch>>, None)
            /\ processes' =
                  [processes EXCEPT
                     !.pc[p] = "loaded",
                     !.loaded[p] = Append(history, [hash |-> commit_hash,
                                                    branch |-> branch,
                                                    message |-> message,
                                                    timestamp |-> now,
                                                    files_changed |-> files_changed,
                                                    parent |-> parent_hash]),
                     !.overlapped = @ \/ \E q \in Procs \ {p} : processes.pc[q] # "idle"]

\* open(history_file, 'w') in a process: the file is emptied.
record_commit_truncate(p) ==
    /\ processes.pc[p] = "loaded"
    /\ history' = Truncated
    /\ processes' = [processes EXCEPT !.pc[p] = "opened"]
    /\ result' = Result("record_commit", "opened", None, <<p>>, None)
    /\ UNCHANGED <<stagingVars, treeVars, commitVars, clock, branches_config,
                   branch_refs, HEAD, objects, config, conflicts_file>>

\* A faulty variant: the new record is written alone.
record_commit_store_alone(p) ==
    /\ processes.pc[p] = "opened"
    /\ history' = <<processes.loaded[p][Len(processes.loaded[p])]>>
    /\ processes' = [processes EXCEPT !.pc[p] = "idle", !.done[p] = @ + 1]
    /\ result' = Result("record_commit", "ok", None, <<p>>, None)
    /\ UNCHANGED <<stagingVars, treeVars, commitVars, clock, branches_config,
                   branch_refs, HEAD, objects, config, conflicts_file>>

\* json.dump and the closing of the file in a process: the file holds the
\* list the process loaded, with its record at the end.
record_commit_store(p) ==
    /\ processes.pc[p] = "opened"
    /\ history' = processes.loaded[p]
    /\ processes' = [processes EXCEPT !.pc[p] = "idle", !.done[p] = @ + 1]
    /\ result' = Result("record_commit", "ok", None, <<p>>, None)
    /\ UNCHANGED <<stagingVars, treeVars, commitVars, clock, branches_config,
                   branch_refs, HEAD, objects, config, conflicts_file>>

\* ----------------------------------------------------------------- Staging

\* The directories of the working tree's paths.
Dirs == UNION {ParentDirs(p) : p \in Paths}

\* Whether path p lies under directory d (os.walk from d reaches it).
Under(d, p) == Len(p) > Len(d) /\ SubSeq(p, 1, Len(d)) = d

\* Staging.get_staged_files: the keys of the index.
Staging_get_staged_files == {p \in Paths : index[p] # None}

\* Staging._stage_single_file and _update_index over a set of files: each
\* file's bytes are hashed, copied to the store under the hash, and the index
\* entry of its path is set to the hash.
_stage_files(files) ==
    /\ staged_blobs' = staged_blobs \cup {_calculate_file_hash(wt[p]) : p \in files}
    /\ index' = [p \in Paths |-> IF p \in files THEN _calculate_file_hash(wt[p])
                                 ELSE index[p]]

\* Staging.add of a file or a directory of a repository without ignore
\* patterns (should_ignore returns False).
add(filepath) ==
    LET isfile == filepath \in Paths /\ wt[filepath] # Absent
        isdir == filepath \in wtDirs
    IN  /\ UNCHANGED <<treeVars, commitVars, clock, branches_config, history, mergeVars>>
        /\ IF ~isfile /\ ~isdir
           THEN /\ result' = Res("add", "ValueError", None)
                /\ UNCHANGED stagingVars
           ELSE /\ result' = Res("add", "ok", None)
                /\ IF isdir
                   THEN _stage_files({p \in FilesOf(wt) : Under(filepath, p)})
                   ELSE _stage_files({filepath})

\* Staging.reset: with a path, its entry is deleted and the blob named by its
\* hash is removed; without one, every entry and every entry's blob.  A path
\* that is not in the index leaves both as they are.
reset(filepath) ==
    /\ UNCHANGED <<treeVars, commitVars, clock, branches_config, history, mergeVars>>
    /\ result' = Res("reset", "ok", None)
    /\ IF filepath = None
       THEN /\ index' = [p \in Paths |-> None]
            /\ staged_blobs' = staged_blobs \ {index[p] : p \in Paths}
       ELSE /\ index' = [index EXCEPT ![filepath] = None]
            /\ staged_blobs' = staged_blobs \ {index[filepath]}

\* ------------------------------------------------------------------- Merge

\* The file tree of a branch's head commit.
head_tree(branch) == commits[get_branch_head(branch)].tree

\* Diff.compare_branches(source, target), which Merge.merge calls: the paths of
\* the two head commits, classified as Diff.diff_commits classifies them by
\* presence alone, with the keys Merge reads.  A path of the source head only
\* is an 'add' carrying its content, a path of the target head only a
\* 'delete', a path of both a 'modify' carrying both sides' content.
compare_branches(source_branch, target_branch) ==
    LET src == head_tree(source_branch)
        tgt == head_tree(target_branch)
    IN  {[type |-> IF tgt[p] = Absent THEN "add"
                   ELSE IF src[p] = Absent THEN "delete" ELSE "modify",
          path |-> p,
          content |-> IF tgt[p] = Absent THEN src[p] ELSE NoContent,
          source_content |-> IF src[p] # Absent /\ tgt[p] # Absent THEN src[p] ELSE NoContent,
          target_content |-> IF src[p] # Absent /\ tgt[p] # Absent THEN tgt[p] ELSE NoContent]
         : p \in FilesOf(src) \cup FilesOf(tgt)}

\* The lists that hold every element of a set once: the order of the
\* differences is not fixed by anything Merge reads.
Orderings(S) ==
    {s \in [1..Cardinality(S) -> S] : \A i, j \in 1..Cardinality(S) : i # j => s[i] # s[j]}

\* A faulty variant: the two sides' contents are stored under each other's key.
_detect_conflicts_swapped(differences) ==
    LET conflicting(item) ==
            item.type = "modify" /\ item.source_content # item.target_content
        found == SelectSeq(differences, conflicting)
    IN  [i \in 1..Len(found) |->
            [path |-> found[i].path,
             type |-> "content_conflict",
             source_content |-> found[i].target_content,
             target_content |-> found[i].source_content]]

\* A faulty variant: an 'add' item is flagged as a conflict too.
_detect_conflicts_flagging_added(differences) ==
    LET conflicting(item) ==
            \/ item.type = "add"
            \/ item.type = "modify" /\ item.source_content # item.target_content
        found == SelectSeq(differences, conflicting)
    IN  [i \in 1..Len(found) |->
            [path |-> found[i].path,
             type |-> "content_conflict",
             source_content |-> found[i].source_content,
             target_content |-> found[i].target_content]]

\* Merge._detect_conflicts: one conflict per 'modify' item whose two contents
\* differ, in the order of the differences.
_detect_conflicts(differences) ==
    LET conflicting(item) ==
            item.type = "modify" /\ item.source_content # item.target_content
        found == SelectSeq(differences, conflicting)
    IN  [i \in 1..Len(found) |->
            [path |-> found[i].path,
             type |-> "content_conflict",
             source_content |-> found[i].source_content,
             target_content |-> found[i].target_content]]

\* Merge.list_conflicts: the stored conflicts, or the empty list without file.
list_conflicts == IF ~conflicts_file.exists THEN <<>> ELSE conflicts_file.content

\* A faulty variant: a 'delete' is reported and the file is left in place.
apply_change_keeping_deleted(item, st) ==
    LET p == item.path
        applied == Append(st.changes, [type |-> item.type, path |-> p])
    IN  IF item.type = "add"
        THEN [st EXCEPT !.tree = [st.tree EXCEPT ![p] = item.content],
                        !.dirs = st.dirs \cup ParentDirs(p),
                        !.changes = applied]
        ELSE IF item.type = "modify"
        THEN IF ParentDirs(p) \subseteq st.dirs
             THEN [st EXCEPT !.tree = [st.tree EXCEPT ![p] = item.source_content],
                             !.changes = applied]
             ELSE [st EXCEPT !.status = "FileNotFoundError"]
        ELSE [st EXCEPT !.changes = applied]

\* One iteration of the loop of Merge._apply_merge on the working tree st.tree
\* with directories st.dirs: an 'add' makes the directory and writes the
\* content, a 'modify' opens the file for writing (FileNotFoundError when its
\* directory is missing) and writes the source content, a 'delete' removes
\* the file if it exists.
apply_change(item, st) ==
    LET p == item.path
        applied == Append(st.changes, [type |-> item.type, path |-> p])
    IN  IF item.type = "add"
        THEN [st EXCEPT !.tree = [st.tree EXCEPT ![p] = item.content],
                        !.dirs = st.dirs \cup ParentDirs(p),
                        !.changes = applied]
        ELSE IF item.type = "modify"
        THEN IF ParentDirs(p) \subseteq st.dirs
             THEN [st EXCEPT !.tree = [st.tree EXCEPT ![p] = item.source_content],
                             !.changes = applied]
             ELSE [st EXCEPT !.status = "FileNotFoundError"]
        ELSE [st EXCEPT !.tree = [st.tree EXCEPT ![p] = Absent],
                        !.changes = applied]

\* The loop of Merge._apply_merge from item i on; an exception ends it.
RECURSIVE apply_changes(_, _, _)
apply_changes(differences, i, st) ==
    IF i > Len(differences) \/ st.status # "ok"
    THEN st
    ELSE apply_changes(differences, i + 1, apply_change(differences[i], st))

\* Merge._apply_merge: the changes are applied to the working tree and the
\* summary of the applied changes is returned.
_apply_merge(source_branch, target_branch, differences) ==
    LET done == apply_changes(differences, 1,
                    [tree |-> wt, dirs |-> wtDirs, changes |-> <<>>, status |-> "ok"])
    IN  /\ wt' = done.tree
        /\ wtDirs' = done.dirs
        /\ result' = Result("merge", done.status, None, <<source_branch, target_branch>>,
                            IF done.status = "ok"
                            THEN [source_branch |-> source_branch,
                                  target_branch |-> target_branch,
                                  changes |-> done.changes]
                            ELSE None)
        /\ UNCHANGED conflicts_file

\* A faulty variant: the conflicts are stored and the changes applied all the same.
merge_branches_without_abort(source_branch, target_branch, differences) ==
    LET conflicts == _detect_conflicts(differences)
        done == apply_changes(differences, 1,
                    [tree |-> wt, dirs |-> wtDirs, changes |-> <<>>, status |-> "ok"])
    IN  IF conflicts # <<>>
        THEN /\ conflicts_file' = File(conflicts)
             /\ wt' = done.tree
             /\ wtDirs' = done.dirs
             /\ result' = Result("merge", "MergeConflictError", None,
                                 <<source_branch, target_branch>>, None)
        ELSE _apply_merge(source_branch, target_branch, differences)

\* Merge.merge once both branches are known to exist: conflicts are stored and
\* MergeConflictError is raised, or the changes are applied.
merge_branches(source_branch, target_branch, differences) ==
    LET conflicts == _detect_conflicts(differences)
    IN  IF conflicts # <<>>
        THEN /\ conflicts_file' = File(conflicts)
             /\ result' = Result("merge", "MergeConflictError", None,
                                 <<source_branch, target_branch>>, None)
             /\ UNCHANGED treeVars
        ELSE _apply_merge(source_branch, target_branch, differences)

\* Repository.get_current_branch: the branch the HEAD file names.
Repository_get_current_branch == HEAD

\* Merge.merge.  The target defaults to the repository's current branch; a
\* branch exists when the branches directory holds a file of its name.
merge(source_branch, target_branch) ==
    LET target == IF target_branch = NoBranch THEN Repository_get_current_branch
                  ELSE target_branch
    IN  /\ UNCHANGED <<commitVars, clock, branches_config, history, stagingVars,
                       branch_refs, HEAD, objects, processes, config>>
        /\ IF source_branch \notin branch_refs \/ target \notin branch_refs
           THEN /\ result' = Result("merge", "ValueError", None,
                                    <<source_branch, target>>, None)
                /\ UNCHANGED <<treeVars, conflicts_file>>
           ELSE \E differences \in Orderings(compare_branches(source_branch, target)) :
                    merge_branches(source_branch, target, differences)

\* The content a user writes to settle a conflict: bytes neither head holds.
Resolved == "v4"

\* The resolutions given to resolve_conflicts: a dictionary of paths to
\* resolved content, as the list of its items in the order they were inserted.
Resolutions ==
    UNION {Orderings(S) : S \in SUBSET {[path |-> p, content |-> Resolved] : p \in Paths}}

\* One iteration of the loop of Merge.resolve_conflicts: when a stored
\* conflict has the item's path, the content is written to the file of the
\* working tree (FileNotFoundError when its directory is missing) and the
\* conflicts of that path are dropped from the list.
resolve_one(item, st) ==
    LET other(c) == c.path # item.path
    IN  IF \E i \in DOMAIN st.conflicts : st.conflicts[i].path = item.path
        THEN IF ParentDirs(item.path) \subseteq wtDirs
             THEN [st EXCEPT !.tree = [st.tree EXCEPT ![item.path] = item.content],
                             !.conflicts = SelectSeq(st.conflicts, other)]
             ELSE [st EXCEPT !.status = "FileNotFoundError"]
        ELSE st

\* The loop of Merge.resolve_conflicts from item i on; an exception ends it.
RECURSIVE resolve_each(_, _, _)
resolve_each(resolutions, i, st) ==
    IF i > Len(resolutions) \/ st.status # "ok"
    THEN st
    ELSE resolve_each(resolutions, i + 1, resolve_one(resolutions[i], st))

\* A faulty variant: the remaining list is written whether or not it is empty.
_update_conflicts_file_always_written(conflicts) == File(conflicts)

\* The end of Merge.resolve_conflicts: the remaining conflicts are written
\* back, or the conflicts file is removed when none remains.
_update_conflicts_file(conflicts) ==
    IF conflicts # <<>> THEN File(conflicts) ELSE NoFile

\* Merge.resolve_conflicts.  Without a conflicts file it returns at once.
resolve_conflicts(resolutions) ==
    /\ UNCHANGED <<commitVars, clock, branches_config, history, stagingVars,
                   branch_refs, HEAD, objects, processes, config, wtDirs>>
    /\ IF ~conflicts_file.exists
       THEN /\ result' = Result("resolve_conflicts", "ok", None, resolutions, None)
            /\ UNCHANGED <<wt, conflicts_file>>
       ELSE LET done == resolve_each(resolutions, 1,
                            [tree |-> wt, conflicts |-> conflicts_file.content,
                             status |-> "ok"])
            IN  /\ wt' = done.tree
                /\ conflicts_file' = IF done.status = "ok"
                                     THEN _update_conflicts_file(done.conflicts)
                                     ELSE conflicts_file
                /\ result' = Result("resolve_conflicts", done.status, None,
                                    resolutions, None)

\* -------------------------------------------------------------------- Diff

\* The bytes of the files given to generate_file_diff: a letter, carriage
\* return, line feed, and a byte that is not valid UTF-8.
Bytes == {"v", "CR", "LF", "xFF"}

RECURSIVE SeqsUpTo(_, _)
SeqsUpTo(S, n) ==
    IF n = 0 THEN {<<>>}
    ELSE SeqsUpTo(S, n - 1) \cup
         {Append(q, x) : q \in {r \in SeqsUpTo(S, n - 1) : Len(r) = n - 1}, x \in S}

FileBytes == SeqsUpTo(Bytes, MaxFileLen)

\* Text mode with newline=None: "\r\n" and a lone "\r" are read as "\n".
RECURSIVE translate_newlines(_)
translate_newlines(bytes) ==
    IF bytes = <<>> THEN <<>>
    ELSE IF Head(bytes) = "CR"
    THEN <<"LF">> \o translate_newlines(IF Len(bytes) > 1 /\ bytes[2] = "LF"
                                        THEN SubSeq(bytes, 3, Len(bytes))
                                        ELSE Tail(bytes))
    ELSE <<Head(bytes)>> \o translate_newlines(Tail(bytes))

\* readlines: the text cut after each "\n", the line ends kept.
RECURSIVE readlines(_)
readlines(text) ==
    IF text = <<>> THEN <<>>
    ELSE LET ends == {i \in DOMAIN text : text[i] = "LF"} \cup {Len(text)}
             n == CHOOSE i \in ends : \A j \in ends : i <= j
         IN  <<SubSeq(text, 1, n)>> \o readlines(SubSeq(text, n + 1, Len(text)))

\* Diff._read_file_lines: the lines of the decoded file, or no line at all
\* when the bytes are not UTF-8 (UnicodeDecodeError).
_read_file_lines(bytes) ==
    IF \E i \in DOMAIN bytes : bytes[i] = "xFF"
    THEN <<>>
    ELSE readlines(translate_newlines(bytes))

\* The blocks a[i..i+k-1] = b[j..j+k-1] of two lists of lines.
Matches(a, b) ==
    {m \in (1..Len(a)) \X (1..Len(b)) \X (1..Len(a)) :
        /\ m[1] + m[3] - 1 <= Len(a)
        /\ m[2] + m[3] - 1 <= Len(b)
        /\ SubSeq(a, m[1], m[1] + m[3] - 1) = SubSeq(b, m[2], m[2] + m[3] - 1)}

\* difflib.SequenceMatcher.find_longest_match: of the longest blocks the one
\* that starts earliest in a, and of those the one that starts earliest in b.
find_longest_match(a, b) ==
    CHOOSE m \in Matches(a, b) :
        \A o \in Matches(a, b) :
            \/ m[3] > o[3]
            \/ m[3] = o[3] /\ m[1] < o[1]
            \/ m[3] = o[3] /\ m[1] = o[1] /\ m[2] <= o[2]

Tagged(tag, lines) == [i \in 1..Len(lines) |-> [tag |-> tag, line |-> lines[i]]]

\* The lines of a hunk: around the longest matching block, which is context,
\* the lines before it and the lines after it are compared in the same way;
\* where nothing matches the lines of a are removed and those of b added.
RECURSIVE hunk_lines(_, _)
hunk_lines(a, b) ==
    IF Matches(a, b) = {}
    THEN Tagged("-", a) \o Tagged("+", b)
    ELSE LET m == find_longest_match(a, b)
         IN  hunk_lines(SubSeq(a, 1, m[1] - 1), SubSeq(b, 1, m[2] - 1))
               \o Tagged(" ", SubSeq(a, m[1], m[1] + m[3] - 1))
               \o hunk_lines(SubSeq(a, m[1] + m[3], Len(a)), SubSeq(b, m[2] + m[3], Len(b)))

\* difflib.unified_diff of files of at most three lines of context between
\* changes: nothing when no line is removed or added, else the two file
\* headers, the hunk header and the lines of the one hunk.
unified_diff(a, b) ==
    LET body == hunk_lines(a, b)
    IN  IF \A i \in DOMAIN body : body[i].tag = " "
        THEN <<>>
        ELSE <<[tag |-> "---", line |-> <<>>], [tag |-> "+++", line |-> <<>>],
               [tag |-> "@@", line |-> <<>>]>> \o body

\* line.startswith(c) of a diff line, which begins with its tag.
startswith(diff_line, c) ==
    IF c = "+" THEN diff_line.tag \in {"+", "+++"} ELSE diff_line.tag \in {"-", "---"}

\* Diff.generate_file_diff of two files, given by their bytes.
generate_file_diff(file1, file2) ==
    LET diff == unified_diff(_read_file_lines(file1), _read_file_lines(file2))
    IN  [diff_lines |-> diff,
         changes |->
            [added_lines |-> Cardinality({i \in DOMAIN diff : startswith(diff[i], "+")}),
             removed_lines |-> Cardinality({i \in DOMAIN diff : startswith(diff[i], "-")}),
             total_lines_changed |-> Len(diff)],
         is_different |-> Len(diff) > 0]

\* A call of Diff.generate_file_diff on two files of the working tree, which
\* writes nothing.
diff_files(file1_path, file2_path) ==
    /\ result' = Result("generate_file_diff", "ok", None,
                        <<wt[file1_path], wt[file2_path]>>,
                        generate_file_diff(wt[file1_path], wt[file2_path]))
    /\ UNCHANGED <<stagingVars, mergeVars, treeVars, commitVars, clock,
                   branches_config, history>>

\* The sum of a function's values over a set of its arguments.
RECURSIVE sum(_, _)
sum(f, S) ==
    IF S = {} THEN 0
    ELSE LET x == CHOOSE y \in S : TRUE
         IN  f[x] + sum(f, S \ {x})

\* The paths a commit's metadata lists.
commit_files(commit_hash) == {f.path : f \in commits[commit_hash].files}

\* The file a path names in a commit directory, or /dev/null, which reads as
\* no bytes, for a path the commit's metadata does not list.
commit_file(commit_hash, file_path) ==
    IF file_path \in commit_files(commit_hash)
    THEN commits[commit_hash].tree[file_path]
    ELSE <<>>

\* A faulty variant: only the paths of the second commit are compared.
diff_commits_of_second(commit1_hash, commit2_hash) ==
    LET all_files == commit_files(commit2_hash)
        file_diffs ==
            [file_path \in all_files |->
                [file_status |-> IF file_path \notin commit_files(commit1_hash) THEN "added"
                                 ELSE "modified",
                 diff |-> generate_file_diff(commit_file(commit1_hash, file_path),
                                             commit_file(commit2_hash, file_path))]]
    IN  [commit1 |-> commit1_hash,
         commit2 |-> commit2_hash,
         file_diffs |-> file_diffs,
         total_changes |->
             sum([f \in all_files |-> file_diffs[f].diff.changes.total_lines_changed],
                 all_files),
         files_changed |-> Cardinality(all_files)]

\* Diff.diff_commits of two commits of the store: every path either
\* metadata lists is diffed, a path the first does not list as 'added', one
\* the second does not list as 'deleted', the others as 'modified', and the
\* changed lines of the file diffs are added up.
diff_commits(commit1_hash, commit2_hash) ==
    LET all_files == commit_files(commit1_hash) \cup commit_files(commit2_hash)
        file_diffs ==
            [file_path \in all_files |->
                [file_status |-> IF file_path \notin commit_files(commit1_hash) THEN "added"
                                 ELSE IF file_path \notin commit_files(commit2_hash)
                                 THEN "deleted" ELSE "modified",
                 diff |-> generate_file_diff(commit_file(commit1_hash, file_path),
                                             commit_file(commit2_hash, file_path))]]
    IN  [commit1 |-> commit1_hash,
         commit2 |-> commit2_hash,
         file_diffs |-> file_diffs,
         total_changes |->
             sum([f \in all_files |-> file_diffs[f].diff.changes.total_lines_changed],
                 all_files),
         files_changed |-> Cardinality(all_files)]

\* A call of Diff.diff_commits, which raises ValueError when the commits
\* directory has no entry of one of the hashes, and writes nothing.
query_diff_commits(commit1_hash, commit2_hash) ==
    /\ result' = IF commit1_hash \notin DOMAIN commits \/ commit2_hash \notin DOMAIN commits
                 THEN Result("diff_commits", "ValueError", None,
                             <<commit1_hash, commit2_hash>>, None)
                 ELSE Result("diff_commits", "ok", None,
                             <<commit1_hash, commit2_hash>>,
                             diff_commits(commit1_hash, commit2_hash))
    /\ UNCHANGED <<stagingVars, mergeVars, treeVars, commitVars, clock,
                   branches_config, history>>

\* ----------------------------------------------------------- IgnoreManager

\* Patterns and paths are the sequences of their characters; "NL" is the
\* newline character, which a file name may hold.
IgnorePatterns ==
    {<<"*", ".", "l", "o", "g">>,       \* *.log
     <<"a", "?", ".", "l", "o", "g">>,  \* a?.log
     <<"a", ".", "l", "o", "g">>,       \* a.log
     <<"l", "o", "g">>,                 \* log
     <<"s", "u", "b", "/">>}            \* sub/

IgnoredPaths ==
    {<<"a", ".", "l", "o", "g">>,                 \* a.log
     <<"a", ".", "l", "o", "g", "x">>,            \* a.logx
     <<"x", "a", ".", "l", "o", "g">>,            \* xa.log
     <<"s", "u", "b", "/", "a", ".", "l", "o", "g">>, \* sub/a.log
     <<"a", "/", ".", "l", "o", "g">>,            \* a/.log
     <<".", "l", "o", "g">>,                      \* .log
     <<"a", ".", "l", "o", "g", "NL">>,           \* a.log followed by a newline
     <<"s", "u", "b">>,                           \* sub
     <<"s", "u", "b", "x">>}                      \* subx

\* The lists of patterns an IgnoreManager has loaded: no pattern twice.
IgnoreLists ==
    UNION {Orderings(S) : S \in {T \in SUBSET IgnorePatterns : Cardinality(T) <= MaxPatterns}}

\* fnmatch.fnmatch(name, pat) for patterns of literals, '*' and '?': the
\* pattern is translated to a regular expression with the DOTALL flag that
\* must match up to the end of the name.
RECURSIVE fnmatch(_, _)
fnmatch(name, pat) ==
    IF pat = <<>> THEN name = <<>>
    ELSE IF Head(pat) = "*"
    THEN fnmatch(name, Tail(pat)) \/ (name # <<>> /\ fnmatch(Tail(name), pat))
    ELSE IF Head(pat) = "?"
    THEN name # <<>> /\ fnmatch(Tail(name), Tail(pat))
    ELSE name # <<>> /\ Head(name) = Head(pat) /\ fnmatch(Tail(name), Tail(pat))

\* IgnoreManager._glob_to_regex: every character is escaped, then the escaped
\* '*' becomes '.*' and the escaped '?' becomes '.'; the result is put
\* between '^' and '$'.
_glob_to_regex(pattern) ==
    <<[op |-> "^"]>>
      \o [i \in DOMAIN pattern |->
             IF pattern[i] = "*" THEN [op |-> ".*"]
             ELSE IF pattern[i] = "?" THEN [op |-> "."]
             ELSE [op |-> "literal", c |-> pattern[i]]]
      \o <<[op |-> "$"]>>

\* re.match(regex, string) without flags, from the item after '^': '.' is
\* any character but a newline, and '$' matches at the end of the string and
\* just before a newline that ends it.
RECURSIVE re_match_from(_, _)
re_match_from(regex, string) ==
    LET item == Head(regex)
    IN  IF item.op = "$" THEN string = <<>> \/ string = <<"NL">>
        ELSE IF item.op = ".*"
        THEN \/ re_match_from(Tail(regex), string)
             \/ string # <<>> /\ Head(string) # "NL" /\ re_match_from(regex, Tail(string))
        ELSE IF item.op = "."
        THEN string # <<>> /\ Head(string) # "NL" /\ re_match_from(Tail(regex), Tail(string))
        ELSE string # <<>> /\ Head(string) = item.c /\ re_match_from(Tail(regex), Tail(string))

re_match(regex, string) == re_match_from(Tail(regex), string)

\* IgnoreManager.should_ignore of a path relative to the repository root.
should_ignore(ignore_patterns, rel_path) ==
    \E i \in DOMAIN ignore_patterns :
        LET pattern == ignore_patterns[i]
        IN  \/ pattern[Len(pattern)] = "/" /\ fnmatch(rel_path \o <<"/">>, pattern)
            \/ fnmatch(rel_path, pattern)
            \/ re_match(_glob_to_regex(pattern), rel_path)

\* A call of should_ignore on an IgnoreManager that has loaded the patterns.
ignore_check(ignore_patterns, rel_path) ==
    /\ result' = Result("should_ignore", "ok", None, <<ignore_patterns, rel_path>>,
                        should_ignore(ignore_patterns, rel_path))
    /\ UNCHANGED <<stagingVars, mergeVars, treeVars, commitVars, clock,
                   branches_config, history>>

\* -------------------------------------------- Staging with its IgnoreManager

\* The metadata directory of a repository.  Staging reads its name from
\* Repository.DSCS_DIR, which the Repository class does not define; the
\* directory Repository.initialize creates is CORE_DIR.
DSCS_DIR == ".core"

dscs_path == RepoPath \o <<DSCS_DIR>>

\* The files Repository.initialize writes into the metadata directory.
RepositoryFiles ==
    {<<DSCS_DIR, "config.json">>, <<DSCS_DIR, "HEAD">>, <<DSCS_DIR, "branches", "main">>}

\* IgnoreManager.IGNORE_FILE, a file of the working tree.
IGNORE_FILE == <<".dscsignore">>

\* The contents of the ignore file: one line, a pattern.
IgnoreFiles == {"*.txt", "sub/"}

\* The working-tree paths of the repositories whose status is taken: the
\* files of the other repositories, the ignore file, and a file in a
\* directory whose name begins with the name of the metadata directory.
StatusPaths == Paths \cup {IGNORE_FILE, <<".core_x", "a.txt">>}

\* IgnoreManager._load_ignore_patterns: the lines of the ignore file.
_load_ignore_patterns ==
    IF wt[IGNORE_FILE] = Absent THEN <<>> ELSE <<Chars(wt[IGNORE_FILE])>>

\* os.path.relpath(path, repository.path) as a string.
relpath(p) == Tail(path_string(p))

\* should_ignore of the IgnoreManager a Staging constructs.
ignored(p) == should_ignore(_load_ignore_patterns, relpath(p))

\* The Python test `a in b` of two strings: a is a substring of b.
contains(string, sub) ==
    \E i \in 0..(Len(string) - Len(sub)) : SubSeq(string, i + 1, i + Len(sub)) = sub

\* The files os.walk(repository.path) finds.
walk == {p \in DOMAIN wt : wt[p] # Absent} \cup RepositoryFiles

\* Staging.status: every file of the walk whose path does not hold the string
\* of the metadata directory's path and which is not ignored is listed as
\* staged, modified or untracked.
status ==
    LET seen == {p \in walk : /\ ~contains(path_string(abspath(p)), path_string(dscs_path))
                              /\ ~ignored(p)}
        tracked == {p \in seen : p \in DOMAIN index /\ index[p] # None}
    IN  [staged |-> {p \in tracked : _calculate_file_hash(wt[p]) = index[p]},
         modified |-> {p \in tracked : _calculate_file_hash(wt[p]) # index[p]},
         untracked |-> seen \ tracked]

\* A call of Staging.status.
query_status ==
    /\ result' = Result("status", "ok", None, <<>>, status)
    /\ UNCHANGED <<stagingVars, mergeVars, treeVars, commitVars, clock,
                   branches_config, history>>

\* The repository's root directory, as a path from itself.
RepositoryRoot == <<>>

\* Staging.index_path: the index document, a file of the metadata directory.
INDEX_FILE == <<DSCS_DIR, "index">>

\* The files of the metadata directory other than the staged blobs.
MetadataFiles == RepositoryFiles \cup {INDEX_FILE}

\* The paths an index entry can have.
AddPaths == StatusPaths \cup MetadataFiles

\* The directories a repository can hold.
AddDirs == {RepositoryRoot, <<DSCS_DIR>>, <<"sub">>, <<".core_x">>}

\* The top-level directories of the working tree; os.walk visits them and
\* the metadata directory in the order the listing gives.
TreeDirs == {<<"sub">>, <<".core_x">>}

\* The bytes _calculate_file_hash reads from a file: those of the working
\* tree, or those of a file of the metadata directory, which its name stands
\* for.
file_bytes(p) == IF p \in MetadataFiles THEN basename(p) ELSE wt[p]

\* should_ignore of a file or a directory; the root's relative path is '.'.
ignored_path(p) ==
    IF p = RepositoryRoot THEN should_ignore(_load_ignore_patterns, <<".">>)
    ELSE ignored(p)

\* The index document exists once an entry was written.
index_exists == \E p \in DOMAIN index : index[p] # None

\* The files of the working tree under a directory that are not ignored.
tree_files(d) ==
    {p \in StatusPaths : wt[p] # Absent /\ Under(d, p) /\ ~ignored(p)}

\* The files the loop of Staging.add stages under a directory.  Under the
\* root os.walk yields the files of the root, then the directories in
\* listing order: those of `early` come before the metadata directory.  In
\* the metadata directory it yields HEAD, config.json and the index document
\* when there is one by then, then the subdirectories, branches before the
\* directory of staged blobs or after it.  (No pattern of IgnoreFiles
\* matches a file of the metadata directory.)
walked(d, early, branches_first) ==
    LET before == IF d = RepositoryRoot
                  THEN {p \in tree_files(d) : Len(p) = 1}
                       \cup UNION {tree_files(e) : e \in early \cap wtDirs}
                  ELSE {}
        core == {p \in RepositoryFiles : Len(p) = 2}
                \cup (IF index_exists \/ before # {} THEN {INDEX_FILE} ELSE {})
                \cup (IF branches_first THEN {p \in RepositoryFiles : Len(p) = 3} ELSE {})
    IN  IF d \in {RepositoryRoot, <<DSCS_DIR>>}
        THEN before \cup {p \in core : ~ignored(p)}
        ELSE tree_files(d)

\* Staging._stage_single_file and _update_index for each file of a set.
_stage_single_file(files) ==
    /\ staged_blobs' = staged_blobs \cup {_calculate_file_hash(file_bytes(p)) : p \in files}
    /\ index' = [p \in DOMAIN index |->
                    IF p \in files THEN _calculate_file_hash(file_bytes(p)) ELSE index[p]]

\* Staging.add with the IgnoreManager.  A path that does not exist raises
\* ValueError and an ignored one is skipped.  A directory is walked and each
\* file that is not ignored is staged; the walk of the root or of the
\* metadata directory reaches the directory of staged blobs, where the copy
\* of a blob onto itself raises shutil.SameFileError.
Staging_add(filepath, early, branches_first) ==
    LET isfile == filepath \in StatusPaths /\ wt[filepath] # Absent
        isdir == filepath \in {RepositoryRoot, <<DSCS_DIR>>} \/ filepath \in wtDirs
    IN  /\ UNCHANGED <<treeVars, commitVars, clock, branches_config, history, mergeVars>>
        /\ IF ~isfile /\ ~isdir
           THEN /\ result' = Result("add", "ValueError", None, <<filepath>>, None)
                /\ UNCHANGED stagingVars
           ELSE IF ignored_path(filepath)
           THEN /\ result' = Result("add", "ok", None, <<filepath>>, None)
                /\ UNCHANGED stagingVars
           ELSE IF isfile
           THEN /\ result' = Result("add", "ok", None, <<filepath>>, None)
                /\ _stage_single_file({filepath})
           ELSE /\ result' = Result("add",
                                    IF filepath \in {RepositoryRoot, <<DSCS_DIR>>}
                                    THEN "SameFileError" ELSE "ok",
                                    None, <<filepath>>, None)
                /\ _stage_single_file(walked(filepath, early, branches_first))

\* ------------------------------------------------------------- the program

\* A repository in which no file has been written yet.
Init ==
    /\ wt = EmptyTree
    /\ wtDirs = {}
    /\ staging_dir = EmptyTree
    /\ stagedAt = EmptyTree
    /\ commits = <<>>
    /\ clock = 1
    /\ branches_config = initial_branches
    /\ history = <<>>
    /\ index = [p \in Paths |-> None]
    /\ staged_blobs = {}
    /\ branch_refs = {"main"}
    /\ HEAD = "main"
    /\ objects = <<>>
    /\ processes = NoProcesses
    /\ config = [version |-> "0.1.0", id |-> 1]
    /\ stray_files = {}
    /\ conflicts_file = NoFile
    /\ result = Res("init", "ok", None)

\* The working tree of the commit tests: a file at the top level and a file
\* in a subdirectory.
FullTree == [p \in Paths |-> IF Len(p) = 1 THEN "v2" ELSE "v3"]

InitFull ==
    /\ wt = FullTree
    /\ wtDirs = UNION {ParentDirs(p) : p \in Paths}
    /\ staging_dir = EmptyTree
    /\ stagedAt = EmptyTree
    /\ commits = <<>>
    /\ clock = 1
    /\ branches_config = initial_branches
    /\ history = <<>>
    /\ index = [p \in Paths |-> None]
    /\ staged_blobs = {}
    /\ branch_refs = {"main"}
    /\ HEAD = "main"
    /\ objects = <<>>
    /\ processes = NoProcesses
    /\ config = [version |-> "0.1.0", id |-> 1]
    /\ stray_files = {}
    /\ conflicts_file = NoFile
    /\ result = Res("init", "ok", None)

\* The Commit manager over a working tree the user edits.
NextCommit ==
    \/ \E p \in Paths, c \in Contents : write_file(p, c)
    \/ \E p \in Paths : stage_file(p)
    \/ \E m \in Messages, a \in Authors, now \in {clock, clock + 1} \cap Times :
            create_commit(m, a, now)

SpecCommit == Init /\ [][NextCommit]_vars

\* The Commit manager given paths inside and outside the repository.
NextStage ==
    \/ \E p \in Paths, c \in Contents : write_file(p, c)
    \/ \E p \in Paths \cup OutsidePaths : stage_file(p)

SpecStage == Init /\ [][NextStage]_vars

\* The Staging index over a working tree the user edits.
NextStaging ==
    \/ \E p \in Paths, c \in Contents : write_file(p, c)
    \/ \E f \in Paths \cup Dirs : add(f)
    \/ \E f \in Paths \cup {None} : reset(f)

SpecStaging == Init /\ [][NextStaging]_vars

\* The commits a merged repository holds: two hashes, each of any tree.
MergeHashes == {commit_hash_of(m, a, 1) : m \in {"c1", "c2"}, a \in Authors}

Trees == {t \in [Paths -> Contents \cup {Absent}] : FilesOf(t) # {}}

commit_object(h, tree) ==
    [hash |-> h, message |-> h[1], author |-> h[2],
     files |-> files_metadata(tree), tree |-> tree]

\* A repository with the branches main and feat, each with a head commit, in
\* which feat may or may not have a file in the branches directory, and a
\* working tree in any state.
InitMerge ==
    /\ wt \in [Paths -> Contents \cup {Absent}]
    /\ wtDirs \in {d \in SUBSET Dirs : \A p \in FilesOf(wt) : ParentDirs(p) \subseteq d}
    /\ staging_dir = EmptyTree
    /\ stagedAt = EmptyTree
    /\ \E trees \in [MergeHashes -> Trees] :
          commits = [h \in MergeHashes |-> commit_object(h, trees[h])]
    /\ clock = 1
    /\ \E heads \in [BranchNames -> MergeHashes] :
          branches_config =
              [current_branch |-> "main",
               branches |-> [b \in BranchNames |->
                                [head_commit |-> heads[b],
                                 base_branch |-> IF b = "main" THEN NoBranch ELSE "main"]]]
    /\ history = <<>>
    /\ index = [p \in Paths |-> None]
    /\ staged_blobs = {}
    /\ branch_refs \in {{"main"}, BranchNames}
    /\ HEAD = "main"
    /\ objects = <<>>
    /\ processes = NoProcesses
    /\ config = [version |-> "0.1.0", id |-> 1]
    /\ stray_files = {}
    /\ conflicts_file = NoFile
    /\ result = Res("init", "ok", None)

\* The Merge engine.
NextMerge ==
    \/ \E source \in BranchNames, target \in BranchNames \cup {NoBranch} :
            merge(source, target)
    \/ \E resolutions \in Resolutions : resolve_conflicts(resolutions)

SpecMerge == InitMerge /\ [][NextMerge]_vars

\* The branches documents a Branch manager is constructed over: the document
\* it writes when there is none, or an existing one, which it keeps; that one
\* holds main alone or main and feat, each with any head, and names either
\* as the current branch.
BranchDocuments ==
    {[current_branch |-> c,
      branches |-> [b \in names |->
                       [head_commit |-> heads[b],
                        base_branch |-> IF b = "main" THEN NoBranch ELSE "main"]]] :
        <<names, c, heads>> \in
            {t \in {{"main"}, BranchNames} \X BranchNames \X [BranchNames -> {None} \cup HeadArgs] :
                t[2] \in t[1]}}

InitBranch ==
    /\ wt = EmptyTree
    /\ wtDirs = {}
    /\ staging_dir = EmptyTree
    /\ stagedAt = EmptyTree
    /\ commits = <<>>
    /\ clock = 1
    /\ branches_config \in {initial_branches} \cup BranchDocuments
    /\ history = <<>>
    /\ index = [p \in Paths |-> None]
    /\ staged_blobs = {}
    /\ branch_refs = {"main"}
    /\ HEAD = "main"
    /\ objects = <<>>
    /\ processes = NoProcesses
    /\ config = [version |-> "0.1.0", id |-> 1]
    /\ stray_files = {}
    /\ conflicts_file = NoFile
    /\ result = Res("init", "ok", None)

\* The Branch registry.
NextBranch ==
    \/ \E b \in CreateNames, base \in BranchNames \cup {NoBranch} : create_branch(b, base)
    \/ \E b \in BranchNames : switch_branch(b)
    \/ \E b \in BranchNames, h \in HeadArgs : update_branch_head(b, h)

SpecBranch == InitBranch /\ [][NextBranch]_vars

\* A working tree that holds two files of any bytes.
InitDiff ==
    /\ wt \in [Paths -> FileBytes]
    /\ wtDirs = Dirs
    /\ staging_dir = EmptyTree
    /\ stagedAt = EmptyTree
    /\ commits = <<>>
    /\ clock = 1
    /\ branches_config = initial_branches
    /\ history = <<>>
    /\ index = [p \in Paths |-> None]
    /\ staged_blobs = {}
    /\ branch_refs = {"main"}
    /\ HEAD = "main"
    /\ objects = <<>>
    /\ processes = NoProcesses
    /\ config = [version |-> "0.1.0", id |-> 1]
    /\ stray_files = {}
    /\ conflicts_file = NoFile
    /\ result = Res("init", "ok", None)

\* The diff engine over pairs of files.
NextDiff == \E file1_path \in Paths, file2_path \in Paths : diff_files(file1_path, file2_path)

SpecDiff == InitDiff /\ [][NextDiff]_vars

\* The bytes of the files of the commits that are compared: a line without
\* end, two lines, and bytes that are not text.
CommittedFiles == {<<"v">>, <<"v", "LF", "v">>, <<"xFF">>}

\* The trees of those commits: some of the paths, each with bytes.
ByteTrees == UNION {[S -> CommittedFiles] : S \in (SUBSET Paths) \ {{}}}

\* A store of two commits, each of any such tree.
InitDiffCommits ==
    /\ wt = EmptyTree
    /\ wtDirs = {}
    /\ staging_dir = EmptyTree
    /\ stagedAt = EmptyTree
    /\ \E trees \in [MergeHashes -> ByteTrees] :
          commits = [h \in MergeHashes |->
                        [hash |-> h, message |-> h[1], author |-> h[2],
                         files |-> {[path |-> p, hash |-> _calculate_file_hash(trees[h][p])] :
                                       p \in DOMAIN trees[h]},
                         tree |-> trees[h]]]
    /\ clock = 1
    /\ branches_config = initial_branches
    /\ history = <<>>
    /\ index = [p \in Paths |-> None]
    /\ staged_blobs = {}
    /\ branch_refs = {"main"}
    /\ HEAD = "main"
    /\ objects = <<>>
    /\ processes = NoProcesses
    /\ config = [version |-> "0.1.0", id |-> 1]
    /\ stray_files = {}
    /\ conflicts_file = NoFile
    /\ result = Res("init", "ok", None)

\* The diff engine over pairs of commit hashes, of the store or not.
NextDiffCommits ==
    \E commit1_hash \in MergeHashes \cup {<<"abc123">>},
       commit2_hash \in MergeHashes \cup {<<"abc123">>} :
        query_diff_commits(commit1_hash, commit2_hash)

SpecDiffCommits == InitDiffCommits /\ [][NextDiffCommits]_vars

\* The ignore matcher over lists of patterns and paths.
NextIgnore ==
    \E ignore_patterns \in IgnoreLists, rel_path \in IgnoredPaths :
        ignore_check(ignore_patterns, rel_path)

SpecIgnore == Init /\ [][NextIgnore]_vars

\* The paths of the repositories commits are restored in: those of the other
\* repositories and a file named like the metadata document of a commit.
RestorePaths == Paths \cup {<<"sub", "metadata.json">>}

\* A repository that holds one commit of any files, which create_commit made
\* when they were staged, and a working tree in any state since.
InitRestore ==
    /\ wt \in [RestorePaths -> Contents \cup {Absent}]
    /\ wtDirs \in {d \in SUBSET Dirs :
                      \A p \in RestorePaths : wt[p] # Absent => ParentDirs(p) \subseteq d}
    /\ staging_dir = EmptyTree
    /\ stagedAt = EmptyTree
    /\ \E tree \in [RestorePaths -> Contents \cup {Absent}] :
          /\ \E p \in RestorePaths : tree[p] # Absent
          /\ LET h == commit_hash_of("c1", "Anonymous", 1)
             IN  commits = (h :> [hash |-> h, message |-> "c1", author |-> "Anonymous",
                                  files |-> {[path |-> p, hash |-> _calculate_file_hash(tree[p])] :
                                               p \in {q \in RestorePaths : tree[q] # Absent}},
                                  tree |-> tree])
    /\ clock = 1
    /\ branches_config = initial_branches
    /\ history = <<>>
    /\ index = [p \in Paths |-> None]
    /\ staged_blobs = {}
    /\ branch_refs = {"main"}
    /\ HEAD = "main"
    /\ objects = <<>>
    /\ processes = NoProcesses
    /\ config = [version |-> "0.1.0", id |-> 1]
    /\ stray_files = {}
    /\ conflicts_file = NoFile
    /\ result = Res("init", "ok", None)

\* Restoring a commit, or a hash of which there is no commit.
NextRestore == \E h \in HeadArgs : restore_commit_files(h)

SpecRestore == InitRestore /\ [][NextRestore]_vars

\* The History log and its queries.  The clock is read as it is: a later
\* reading may be an earlier time.
NextHistory ==
    \/ /\ Len(history) < MaxLog
       /\ \E h \in HeadArgs, b \in BranchNames, m \in Messages, now \in Times :
               record_commit(h, b, m, {}, None, now)
    \/ \E b \in BranchNames \cup {NoBranch}, limit \in Limits : query_commit_history(b, limit)
    \/ \E b \in BranchNames \cup {NoBranch} : query_latest_commit(b)
    \/ \E h \in HeadArgs : query_commit_by_hash(h)

SpecHistory == Init /\ [][NextHistory]_vars

\* The History log written by a process that may be killed during a write.
NextCrash ==
    \/ /\ Len(history) < MaxLog
       /\ \E h \in HeadArgs, b \in BranchNames, m \in Messages, now \in Times :
               record_commit_open(h, b, m, {}, None, now)
    \/ record_commit_dump
    \/ crash

SpecCrash == Init /\ [][NextCrash]_vars

\* Two processes that record commits in one repository, each step of one
\* taken at any time between the steps of the other.
NextProcesses ==
    \E p \in Procs :
        \/ /\ processes.done[p] < MaxCalls
           /\ \E h \in HeadArgs, b \in BranchNames, now \in {clock, clock + 1} \cap Times :
                   record_commit_load(p, h, b, "c1", {}, None, now)
        \/ record_commit_truncate(p)
        \/ record_commit_store(p)

SpecProcesses == Init /\ [][NextProcesses]_vars

\* A repository that is initialized and switched between its branches; the
\* two records of the current branch name main at the start.
InitSwitch ==
    /\ wt = EmptyTree
    /\ wtDirs = {}
    /\ staging_dir = EmptyTree
    /\ stagedAt = EmptyTree
    /\ commits = <<>>
    /\ clock = 1
    /\ branches_config \in {d \in BranchDocuments : d.current_branch = "main"}
    /\ history = <<>>
    /\ index = [p \in Paths |-> None]
    /\ staged_blobs = {}
    /\ branch_refs = {"main"}
    /\ HEAD = "main"
    /\ objects = <<>>
    /\ processes = NoProcesses
    /\ config \in [version : {"0.1.0"}, id : UUIDs]
    /\ stray_files = {}
    /\ conflicts_file = NoFile
    /\ result = Res("init", "ok", None)

NextSwitch ==
    \/ \E id \in UUIDs : initialize(id)
    \/ \E b \in BranchNames : switch_branch(b)

SpecSwitch == InitSwitch /\ [][NextSwitch]_vars

\* A repository that is initialized again, with a current branch that is
\* set through the repository or through the branch manager.
NextRepository ==
    \/ \E id \in UUIDs : initialize(id)
    \/ \E b \in BranchNames : set_current_branch(b)
    \/ \E b \in BranchNames : switch_branch(b)

SpecRepository == InitSwitch /\ [][NextRepository]_vars

\* The object store of an initialized repository.
NextObjects ==
    \/ \E content \in Contents, object_type \in ObjectTypes : store_object(content, object_type)
    \/ \E object_hash \in ObjectIds : get_object(object_hash)

SpecObjects == Init /\ [][NextObjects]_vars

\* A repository with an ignore file of one pattern or none, a working tree
\* in any state and an index in any state over the files of the tree.
InitStatus ==
    /\ wt \in {t \in [StatusPaths -> Contents \cup IgnoreFiles \cup {Absent}] :
                  /\ t[IGNORE_FILE] \in IgnoreFiles \cup {Absent}
                  /\ \A p \in StatusPaths \ {IGNORE_FILE} : t[p] \in Contents \cup {Absent}
                  /\ t[<<".core_x", "a.txt">>] # "v3"}
    /\ wtDirs = UNION {ParentDirs(p) : p \in {q \in StatusPaths : wt[q] # Absent}}
    /\ staging_dir = EmptyTree
    /\ stagedAt = EmptyTree
    /\ commits = <<>>
    /\ clock = 1
    /\ branches_config = initial_branches
    /\ history = <<>>
    /\ index \in {i \in [StatusPaths -> {None} \cup {_calculate_file_hash(c) : c \in Contents}] :
                     /\ i[IGNORE_FILE] = None
                     /\ i[<<".core_x", "a.txt">>] # _calculate_file_hash("v3")}
    /\ staged_blobs = {index[p] : p \in StatusPaths} \ {None}
    /\ branch_refs = {"main"}
    /\ HEAD = "main"
    /\ objects = <<>>
    /\ processes = NoProcesses
    /\ config = [version |-> "0.1.0", id |-> 1]
    /\ stray_files = {}
    /\ conflicts_file = NoFile
    /\ result = Res("init", "ok", None)

\* The Staging area asked for its status.
NextStatus == query_status

SpecStatus == InitStatus /\ [][NextStatus]_vars

\* A repository with an ignore file of one pattern or none, a working tree
\* in any state and nothing staged.
InitAdd ==
    /\ wt \in {t \in [StatusPaths -> Contents \cup IgnoreFiles \cup {Absent}] :
                  /\ t[IGNORE_FILE] \in IgnoreFiles \cup {Absent}
                  /\ \A p \in StatusPaths \ {IGNORE_FILE} : t[p] \in Contents \cup {Absent}
                  /\ t[<<".core_x", "a.txt">>] # "v3"}
    /\ wtDirs = UNION {ParentDirs(p) : p \in {q \in StatusPaths : wt[q] # Absent}}
    /\ staging_dir = EmptyTree
    /\ stagedAt = EmptyTree
    /\ commits = <<>>
    /\ clock = 1
    /\ branches_config = initial_branches
    /\ history = <<>>
    /\ index = [p \in AddPaths |-> None]
    /\ staged_blobs = {}
    /\ branch_refs = {"main"}
    /\ HEAD = "main"
    /\ objects = <<>>
    /\ processes = NoProcesses
    /\ config = [version |-> "0.1.0", id |-> 1]
    /\ stray_files = {}
    /\ conflicts_file = NoFile
    /\ result = Res("init", "ok", None)

\* The Staging index given files and directories to add.
NextAdd ==
    \E f \in StatusPaths \cup AddDirs, early \in SUBSET TreeDirs, branches_first \in BOOLEAN :
        Staging_add(f, early, branches_first)

SpecAdd == InitAdd /\ [][NextAdd]_vars

\* The Commit manager, the Branch registry and the History log of one
\* repository, over the working tree of the tests.
Next ==
    \/ \E p \in Paths : stage_file(p)
    \/ \E m \in Messages, a \in Authors, now \in {clock, clock + 1} \cap Times :
            create_commit(m, a, now)
    \/ \E b \in BranchNames : create_branch(b, NoBranch)
    \/ \E b \in BranchNames : switch_branch(b)
    \/ \E b \in BranchNames, h \in HeadArgs : update_branch_head(b, h)
    \/ /\ Len(history) < MaxHistory
       /\ \E h \in HeadArgs, b \in list_branches, m \in Messages,
             now \in {clock, clock + 1} \cap Times :
               record_commit(h, b, m, {}, None, now)

Spec == InitFull /\ [][Next]_vars

\* ------------------------------------------------------------------ claims

\* The last call was a create_commit that wrote a commit object.
CommitCreated == result.op = "create_commit" /\ result.commit # None

\* C1: once create_commit has made a commit from a non-empty staged set, with
\* files at the top level or under subdirectories, the staging area holds no
\* entries.
C1_StagingEmptyAfterCommit == CommitCreated => get_staged_files = {}

\* C2: create_commit called while nothing is staged fails with ValueError and
\* leaves the commit store, the branch document and the history as they were.
C2_EmptyCommitFails ==
    [][(result'.op = "create_commit" /\ get_staged_files = {})
          => /\ result'.status = "ValueError"
             /\ commits' = commits
             /\ branches_config' = branches_config
             /\ history' = history]_vars

\* C2's case: a create_commit refused in a repository that holds a commit, a
\* branch head and a history record.
C2_Witness ==
    /\ result.op = "create_commit"
    /\ result.status = "ValueError"
    /\ commits # <<>>
    /\ history # <<>>
    /\ get_branch_head("main") # None

\* C3: the file list of a new commit is exactly one entry (f, hash) per staged
\* file f, the hash being the content hash of f's bytes as they were in the
\* working tree when f was staged.
C3_CommitFilesAreStagedBytes ==
    [][(result'.op = "create_commit" /\ result'.commit # None)
          => commits'[result'.commit].files =
                {[path |-> p, hash |-> <<"sha256", stagedAt[p]>>] : p \in FilesOf(stagedAt)}]_vars

\* C3's case: a commit of a file whose working-tree bytes were changed between
\* staging and commit.
C3_Witness ==
    /\ CommitCreated
    /\ \E f \in commits[result.commit].files :
          /\ wt[f.path] # Absent
          /\ f.hash # <<"sha256", wt[f.path]>>

\* C10: every hash referenced by an index entry has a blob in the staging
\* store, after any sequence of Staging.add and Staging.reset calls.
C10_IndexedHashesHaveBlobs ==
    \A p \in Staging_get_staged_files : index[p] \in staged_blobs

\* The paths both trees hold with different content.
Differing(src, tgt) ==
    {p \in Paths : src[p] # Absent /\ tgt[p] # Absent /\ src[p] # tgt[p]}

\* The last call was a merge of two existing branches that found conflicts.
MergeAborted == result.op = "merge" /\ result.status = "MergeConflictError"

C6_IdenticalMergeMovesHead ==
    [][(/\ result'.op = "merge"
        /\ result'.status = "ok"
        /\ get_branch_head(result'.args[1]) # get_branch_head(result'.args[2])
        /\ head_tree(result'.args[1]) = head_tree(result'.args[2]))
          => /\ conflicts_file' = conflicts_file
             /\ branches_config'.branches[result'.args[2]].head_commit
                  # get_branch_head(result'.args[2])
             /\ branches_config'.branches[result'.args[2]].head_commit
                  \in DOMAIN commits']_vars

\* The kind of change a path of the source or target head makes.
ChangeKind(src, tgt, p) ==
    IF tgt[p] = Absent THEN "add" ELSE IF src[p] = Absent THEN "delete" ELSE "modify"

C8_MergeAppendsHistory ==
    [][(result'.op = "merge" /\ result'.status = "ok")
          => /\ Len(history') = Len(history) + 1
             /\ history'[Len(history')].branch = result'.args[2]
             /\ history'[Len(history')].hash
                  = branches_config'.branches[result'.args[2]].head_commit]_vars

\* C9: each branch's head is null or the hash of a commit in the commit store.
C9_HeadsNameCommits ==
    \A b \in list_branches :
        get_branch_head(b) = None \/ get_branch_head(b) \in DOMAIN commits

\* C11: the details get_commit_details returns for a commit of the store are
\* the same after every later operation, and for a hash of which no commit
\* was made the lookup returns None.
C11_CommitsAreImmutable ==
    /\ [](\A h \in CommitHashes \cup HeadArgs :
             h \notin DOMAIN commits => get_commit_details(h) = None)
    /\ [][\A h \in DOMAIN commits :
             /\ h \in DOMAIN commits'
             /\ get_commit_details(h)' = get_commit_details(h)]_vars

\* C11's case: the store holds two commits and a third create_commit has
\* produced the hash of one of them.
C11_Witness ==
    /\ Cardinality(DOMAIN commits) = 2
    /\ result.op = "create_commit"
    /\ result.status = "FileExistsError"
    /\ \E h \in DOMAIN commits : get_commit_details(h).files # {}

\* The paths a list of conflicts or of resolutions names.
PathsOf(items) == {items[i].path : i \in DOMAIN items}

Refused(args) ==
    LET base == IF args[2] = NoBranch THEN get_current_branch ELSE args[2]
    IN  \/ args[1] = ""
        \/ \E i \in DOMAIN Chars(args[1]) : Chars(args[1])[i] = "/"
        \/ args[1] \in list_branches
        \/ base \notin list_branches

\* C13: create_branch with an empty name, a name that holds '/', the name of
\* a registered branch or an unknown base raises ValueError and leaves the
\* branches document as it was.
C13_CreateBranchValidates ==
    [][(result'.op = "create_branch" /\ Refused(result'.args))
          => /\ result'.status = "ValueError"
             /\ branches_config' = branches_config]_vars

\* C13's case: a name with a separator refused in a registry of two branches
\* with heads, of which feat is the current one.
C13_Witness ==
    /\ result.op = "create_branch"
    /\ result.status = "ValueError"
    /\ result.args[1] = "feat/x"
    /\ get_current_branch = "feat"
    /\ get_branch_head("main") # None
    /\ get_branch_head("feat") # None

\* The head of every registered branch.
Heads == [b \in list_branches |-> get_branch_head(b)]

\* C14: switch_branch of a registered branch makes it the current branch and
\* changes no head; of an unknown name it raises ValueError and the current
\* branch stays.
C14_SwitchBranch ==
    [][result'.op = "switch_branch"
          => IF result'.args[1] \in list_branches
             THEN /\ result'.status = "ok"
                  /\ get_current_branch' = result'.args[1]
                  /\ Heads' = Heads
             ELSE /\ result'.status = "ValueError"
                  /\ get_current_branch' = get_current_branch]_vars

\* C14's case: feat, whose head differs from main's, has become the current
\* branch.
C14_Witness ==
    /\ result.op = "switch_branch"
    /\ result.status = "ok"
    /\ result.args = <<"feat">>
    /\ get_current_branch = "feat"
    /\ get_branch_head("feat") # get_branch_head("main")

\* The arguments of a create_branch call name a new branch and a known base.
Creatable(args) == ~Refused(args)

\* C15: create_branch with a valid name that is not registered returns, and
\* afterwards the registered branches are the former ones and the new one,
\* and the current branch is as before.
C15_CreateBranchSucceeds ==
    [][(result'.op = "create_branch" /\ Creatable(result'.args))
          => /\ result'.status = "ok"
             /\ list_branches' = list_branches \cup {result'.args[1]}
             /\ get_current_branch' = get_current_branch]_vars

\* C16: the head of a branch create_branch has made is the head its base had
\* when it was made, and an update of another branch's head leaves it.
C16_NewBranchCopiesBaseHead ==
    [][/\ (result'.op = "create_branch" /\ Creatable(result'.args))
           => LET base == IF result'.args[2] = NoBranch THEN get_current_branch
                          ELSE result'.args[2]
              IN  /\ result'.args[1] \in list_branches'
                  /\ branches_config'.branches[result'.args[1]].head_commit
                       = get_branch_head(base)
       /\ (result'.op = "update_branch_head")
           => \A b \in list_branches \ {result'.args[1]} :
                 branches_config'.branches[b].head_commit = get_branch_head(b)]_vars

\* C17: update_branch_head of a registered branch makes the hash its head and
\* leaves the other heads and the current branch; of an unknown branch it
\* raises ValueError and the document stays.
C17_UpdateBranchHead ==
    [][result'.op = "update_branch_head"
          => IF result'.args[1] \in list_branches
             THEN /\ result'.status = "ok"
                  /\ list_branches' = list_branches
                  /\ branches_config'.branches[result'.args[1]].head_commit
                       = result'.args[2]
                  /\ \A b \in list_branches \ {result'.args[1]} :
                        branches_config'.branches[b].head_commit = get_branch_head(b)
                  /\ get_current_branch' = get_current_branch
             ELSE /\ result'.status = "ValueError"
                  /\ branches_config' = branches_config]_vars

\* C17's case: feat has been given a head that main, the current branch,
\* does not have.
C17_Witness ==
    /\ result.op = "update_branch_head"
    /\ result.status = "ok"
    /\ result.args[1] = "feat"
    /\ get_branch_head("feat") = result.args[2]
    /\ get_branch_head("main") # result.args[2]
    /\ get_branch_head("main") # None
    /\ get_current_branch = "main"

\* C18: in a new repository main is registered, is the current branch and
\* has no head; after every operation main is registered and the current
\* branch is a registered one.
C18_MainIsDefault ==
    /\ "main" \in list_branches
    /\ get_current_branch = "main"
    /\ get_branch_head("main") = None
    /\ []("main" \in list_branches /\ get_current_branch \in list_branches)

\* C18's case: main has been given a head, and a switch to a branch the
\* registry does not hold was refused.
C18_Witness ==
    /\ result.op = "switch_branch"
    /\ result.status = "ValueError"
    /\ result.args = <<"feat">>
    /\ get_branch_head("main") # None
    /\ get_current_branch = "main"

\* The bytes are a text file: they decode as UTF-8.
IsText(bytes) == \A i \in DOMAIN bytes : bytes[i] # "xFF"

\* C19: generate_file_diff of two files of the same content reports no
\* difference and an empty diff, and of two text files of different content
\* reports a difference, with diff lines and the statistics of the change.
C19_FileDiffReportsDifference ==
    [][result'.op = "generate_file_diff"
          => LET file1 == result'.args[1]
                 file2 == result'.args[2]
                 diff == result'.value
             IN  /\ file1 = file2
                     => ~diff.is_different /\ diff.diff_lines = <<>>
                 /\ (IsText(file1) /\ IsText(file2) /\ file1 # file2)
                     => /\ diff.is_different
                        /\ diff.diff_lines # <<>>
                        /\ diff.changes.total_lines_changed > 0]_vars

\* A glob matches a whole path: '*' stands for any characters, none or more,
\* '?' for one, every other character for itself.
RECURSIVE GlobMatchesWhole(_, _)
GlobMatchesWhole(glob, path) ==
    IF glob = <<>> THEN path = <<>>
    ELSE IF Head(glob) = "*"
    THEN \E n \in 0..Len(path) : GlobMatchesWhole(Tail(glob), SubSeq(path, n + 1, Len(path)))
    ELSE /\ path # <<>>
         /\ Head(glob) = "?" \/ Head(glob) = Head(path)
         /\ GlobMatchesWhole(Tail(glob), Tail(path))

\* C20: should_ignore is true exactly when one of the patterns matches the
\* whole relative path as a glob (a pattern that ends in the separator, the
\* path with a separator appended); with the one pattern *.log, a.log is
\* ignored and a.logx is not.
C20_IgnoreMatchesWholePath ==
    [][result'.op = "should_ignore"
          => LET patterns == result'.args[1]
                 path == result'.args[2]
             IN  result'.value
                   <=> \E i \in DOMAIN patterns :
                          \/ GlobMatchesWhole(patterns[i], path)
                          \/ /\ patterns[i][Len(patterns[i])] = "/"
                             /\ GlobMatchesWhole(patterns[i], path \o <<"/">>)]_vars

\* C21: restore_commit_files of a commit of the store leaves every file the
\* commit tracks in the working tree with the content the commit holds,
\* whatever the working tree held before, and of any other hash it raises
\* ValueError.
C21_RestoreWritesEveryTrackedFile ==
    [][result'.op = "restore_commit_files"
          => LET h == result'.args[1]
             IN  IF h \in DOMAIN commits
                 THEN /\ result'.status = "ok"
                      /\ \A f \in get_commit_details(h).files :
                            _calculate_file_hash(wt'[f.path]) = f.hash
                 ELSE result'.status = "ValueError" /\ wt' = wt]_vars

\* C22: the history log holds one row per commit: every commit object of the
\* commit store has exactly one history record with its hash, and every
\* history record names a commit of the store.
C22_OneHistoryRowPerCommit ==
    /\ \A h \in DOMAIN commits :
          Cardinality({i \in DOMAIN history : history[i].hash = h}) = 1
    /\ \A i \in DOMAIN history : history[i].hash \in DOMAIN commits

\* C23: the persisted history is append-only: record_commit leaves the stored
\* records as they were, in their order, and adds exactly one record at the
\* end; the queries leave the stored history as it is.
C23_HistoryIsAppendOnly ==
    [][/\ result'.op = "record_commit"
          => /\ Len(history') = Len(history) + 1
             /\ SubSeq(history', 1, Len(history)) = history
             /\ history'[Len(history')].hash = result'.args[1]
             /\ history'[Len(history')].branch = result'.args[2]
       /\ result'.op \in {"get_commit_history", "get_latest_commit", "get_commit_by_hash"}
          => history' = history]_vars

\* A query has returned the two stored records in the other order, and a
\* record was appended behind a stored one.
C23_Witness ==
    /\ Len(history) = 2
    /\ history[1].timestamp < history[2].timestamp
    /\ result.op = "get_commit_history"
    /\ result.value = <<history[2], history[1]>>

\* C28: get_commit_history(branch, limit) returns records sorted by falling
\* timestamp, exactly the records of the branch when one is given, and at
\* most limit records whenever a limit is given, 0 included;
\* get_latest_commit(branch) returns the first record of that sequence, or
\* None when it is empty.
C28_HistoryQueries ==
    [][/\ result'.op = "get_commit_history"
          => LET branch == result'.args[1]
                 limit == result'.args[2]
                 value == result'.value
             IN  /\ \A i, j \in DOMAIN value :
                        i < j => value[i].timestamp >= value[j].timestamp
                 /\ branch # NoBranch => \A i \in DOMAIN value : value[i].branch = branch
                 /\ \A i \in DOMAIN value : \E j \in DOMAIN history : history[j] = value[i]
                 /\ limit # NoLimit => Len(value) <= limit
       /\ result'.op = "get_latest_commit"
          => LET all == get_commit_history(result'.args[1], NoLimit)
             IN  result'.value = IF all = <<>> THEN None ELSE <<all[1]>>]_vars

\* C24: commit creation is atomic with respect to failure: a create_commit
\* that fails, in a copy, in the metadata write or in the clearing of the
\* staging area, leaves the commit store and the staging area as they were;
\* the staging area is cleared only by a create_commit that succeeded.
C24_CreateCommitIsAtomic ==
    [][result'.op = "create_commit"
          => /\ result'.status # "ok"
                => /\ commits' = commits
                   /\ staging_dir' = staging_dir
             /\ staging_dir' # staging_dir => result'.status = "ok"]_vars

\* C25: a process killed at any point of the update of a persisted document
\* leaves the document equal to its complete old content or to its complete
\* new content, never to a partial or truncated one.  Stated of the history
\* document: during a record_commit the file holds the records it held
\* before or those with the new record, and it always holds a JSON value.
C25_DocumentUpdateIsAtomic ==
    /\ history # Truncated
    /\ (result.op = "record_commit" /\ result.status = "writing")
          => \/ history = result.value
             \/ history = SubSeq(result.value, 1, Len(result.value) - 1)

\* C26: the commit hash is determined by the (path, content hash) pairs of the
\* commit, its message and its author (the code keeps no parent): two commits
\* of identical staged trees and identical message and author have the same
\* hash whatever the clock read, and a create_commit of a staged tree that no
\* stored commit holds makes a commit of a hash the store did not hold, even
\* when message, author and clock are those of a stored commit.
C26_HashDeterminedByContent ==
    /\ [](\A h1, h2 \in DOMAIN commits :
             (/\ commits[h1].files = commits[h2].files
              /\ commits[h1].message = commits[h2].message
              /\ commits[h1].author = commits[h2].author) => h1 = h2)
    /\ [][(/\ result'.op = "create_commit"
           /\ get_staged_files # {}
           /\ \A h \in DOMAIN commits : commits[h].files # files_metadata(staging_dir))
             => /\ result'.commit # None
                /\ result'.commit \notin DOMAIN commits
                /\ result'.commit \in DOMAIN commits']_vars

\* C27: storing an object is content-addressed and idempotent: store_object
\* returns an identifier under which the store holds exactly the bytes given,
\* the same bytes stored again give the same identifier and no second
\* object, and get_object of the identifier returns those bytes.
C27_ObjectStoreIsContentAddressed ==
    [][result'.op = "store_object"
          => /\ result'.status = "ok"
             /\ result'.value \in DOMAIN objects'
             /\ objects'[result'.value].content = result'.args[1]
             /\ \A id \in DOMAIN objects' :
                   objects'[id].content = result'.args[1] => id = result'.value
             /\ \A id \in DOMAIN objects : objects'[id] = objects[id]]_vars

C30_ResolveConflicts ==
    [][result'.op = "resolve_conflicts"
          => LET pending == PathsOf(list_conflicts)
                 given == PathsOf(result'.args)
                 unresolved(c) == c.path \notin given
             IN  /\ \A i \in DOMAIN result'.args :
                       result'.args[i].path \in pending
                         => /\ wt'[result'.args[i].path] = result'.args[i].content
                            /\ result'.args[i].path \notin PathsOf(list_conflicts')
                 /\ \A p \in Paths \ (given \cap pending) : wt'[p] = wt[p]
                 /\ list_conflicts' = SelectSeq(list_conflicts, unresolved)
                 /\ pending = {} => (wt' = wt /\ conflicts_file' = conflicts_file)]_vars

\* C31: merge(source, target) raises its not-found error, changing nothing,
\* exactly when the source or the target is not a branch of the branch
\* registry; a registered branch is accepted as source and as target.
C31_MergeAcceptsRegisteredBranches ==
    [][result'.op = "merge"
          => /\ result'.status = "ValueError"
                  <=> (\/ result'.args[1] \notin list_branches
                       \/ result'.args[2] \notin list_branches)
             /\ result'.status = "ValueError"
                  => /\ wt' = wt
                     /\ wtDirs' = wtDirs
                     /\ conflicts_file' = conflicts_file
                     /\ branches_config' = branches_config
                     /\ commits' = commits
                     /\ history' = history]_vars

\* C32: staging a path that does not exist, or one that lies outside the
\* repository root, a directory beside it whose name begins with the
\* repository's name included, fails with an error and leaves the staged set
\* as it was.
C32_StagingRefusesOutsidePaths ==
    [][(result'.op = "stage_file"
          /\ (result'.args[1] \in OutsidePaths \/ ~exists(result'.args[1])))
          => /\ result'.status # "ok"
             /\ staging_dir' = staging_dir
             /\ stray_files' = stray_files]_vars

\* C33: status() places every file of the working tree that is not ignored
\* in exactly one of three classes: staged when its path is in the index and
\* its hash is the indexed one, modified when it is in the index with another
\* hash, untracked when it is not in the index; ignored files and the files
\* of the metadata directory are in none.
C33_StatusClassifiesEveryFile ==
    [][result'.op = "status"
          => LET report == result'.value
                 listed == report.staged \cup report.modified \cup report.untracked
             IN  /\ \A p \in DOMAIN wt :
                       wt[p] # Absent /\ ~ignored(p)
                         => /\ p \in report.staged
                                 <=> (index[p] # None
                                        /\ index[p] = _calculate_file_hash(wt[p]))
                            /\ p \in report.modified
                                 <=> (index[p] # None
                                        /\ index[p] # _calculate_file_hash(wt[p]))
                            /\ p \in report.untracked <=> index[p] = None
                 /\ \A p \in DOMAIN wt : wt[p] # Absent /\ ignored(p) => p \notin listed
                 /\ listed \cap RepositoryFiles = {}]_vars

\* C34: diff_commits(h1, h2) reports exactly the paths of the two commits,
\* a path of h2 only as 'added', a path of h1 only as 'deleted', a path of
\* both as 'modified'; total_changes is the sum of the changed-line counts
\* of the file diffs; it fails when one of the commits does not exist.
C34_DiffCommitsClassifiesPaths ==
    [][result'.op = "diff_commits"
          => LET h1 == result'.args[1]
                 h2 == result'.args[2]
                 report == result'.value
             IN  IF h1 \in DOMAIN commits /\ h2 \in DOMAIN commits
                 THEN /\ result'.status = "ok"
                      /\ DOMAIN report.file_diffs = commit_files(h1) \cup commit_files(h2)
                      /\ \A p \in DOMAIN report.file_diffs :
                            report.file_diffs[p].file_status =
                                IF p \notin commit_files(h1) THEN "added"
                                ELSE IF p \notin commit_files(h2) THEN "deleted"
                                ELSE "modified"
                      /\ report.total_changes =
                            sum([p \in DOMAIN report.file_diffs |->
                                    report.file_diffs[p].diff.changes.total_lines_changed],
                                DOMAIN report.file_diffs)
                 ELSE result'.status = "ValueError"]_vars

\* C34's case: the first commit holds a.txt alone, the second holds it with
\* other bytes and adds sub/b.txt, and the diff of the two counts changes.
C34_Witness ==
    /\ result.op = "diff_commits"
    /\ result.status = "ok"
    /\ commit_files(result.args[1]) = {<<"a.txt">>}
    /\ commit_files(result.args[2]) = Paths
    /\ result.value.file_diffs[<<"a.txt">>].file_status = "modified"
    /\ result.value.file_diffs[<<"a.txt">>].diff.is_different
    /\ result.value.file_diffs[<<"sub", "b.txt">>].file_status = "added"
    /\ result.value.total_changes >
          result.value.file_diffs[<<"a.txt">>].diff.changes.total_lines_changed


\* C35: record_commit takes no lock.  Two processes whose calls do not
\* overlap leave one record for each completed call in the history, and a
\* completed call leaves the history as the list it loaded with its own record
\* at the end, so that a record another process stored after that load is
\* lost (the state of C35_Witness).
C35_UpdateLostOnlyWhenInterleaved ==
    /\ []((~processes.overlapped /\ \A p \in Procs : processes.pc[p] = "idle")
            => /\ history # Truncated
               /\ Len(history) = processes.done[1] + processes.done[2])
    /\ [][\A p \in Procs :
            (processes.pc[p] = "opened" /\ processes'.pc[p] = "idle")
                => history' = processes.loaded[p]]_vars

\* Both processes have completed a call and the history holds one record.
C35_Witness ==
    /\ \A p \in Procs : processes.pc[p] = "idle" /\ processes.done[p] = 1
    /\ processes.overlapped
    /\ history # Truncated
    /\ Len(history) = 1


\* C36: HEAD, which Repository.get_current_branch reads and merge takes as
\* its default target, names the branch that the branches document holds as
\* current_branch, after any initialize and any switch_branch.
C36_HeadAgreesWithCurrentBranch ==
    Repository_get_current_branch = get_current_branch


\* C37: a create_commit that succeeds while a branch is the current branch
\* makes the new commit's hash the head of that branch and leaves the head of
\* every other branch as it was.
C37_CommitMovesCurrentBranchHead ==
    [][(result'.op = "create_commit" /\ result'.status = "ok")
          => /\ list_branches' = list_branches
             /\ get_branch_head(get_current_branch)' = result'.commit
             /\ \A b \in list_branches \ {get_current_branch} :
                   get_branch_head(b)' = get_branch_head(b)]_vars


\* C38: the pending conflicts are those of the most recent merge attempt: a
\* merge that aborts leaves exactly the conflicts between its two heads as
\* the stored list, whatever was stored before, and after a merge that
\* succeeds list_conflicts is empty, whatever was stored before.
C38_ConflictsAreOfLatestMerge ==
    [][result'.op = "merge"
          => /\ result'.status = "MergeConflictError"
                => LET src == head_tree(result'.args[1])
                       tgt == head_tree(result'.args[2])
                       differing == {p \in Paths : /\ src[p] # Absent
                                                   /\ tgt[p] # Absent
                                                   /\ src[p] # tgt[p]}
                   IN  /\ PathsOf(list_conflicts') = differing
                       /\ Len(list_conflicts') = Cardinality(differing)
             /\ result'.status = "ok" => list_conflicts' = <<>>]_vars


\* C39: Staging.add on a directory, the repository root included, raises no
\* error and stages every file beneath it that is not ignored and is no file
\* of the metadata directory, and nothing else; no ignored file and no file
\* of the metadata directory enters the index by any add; adding an ignored
\* path that exists raises no error and changes nothing.
C39_AddStagesTheFilesOfADirectory ==
    [][result'.op = "add"
          => LET f == result'.args[1]
                 isdir == f \in {RepositoryRoot, <<DSCS_DIR>>} \/ f \in wtDirs
                 beneath == {p \in StatusPaths : wt[p] # Absent /\ Under(f, p) /\ ~ignored(p)}
             IN  /\ \A p \in AddPaths :
                       index'[p] # index[p] => (p \notin MetadataFiles /\ ~ignored(p))
                 /\ (isdir /\ ~ignored_path(f))
                       => /\ result'.status = "ok"
                          /\ \A p \in AddPaths :
                                index'[p] = IF p \in beneath
                                            THEN _calculate_file_hash(wt[p])
                                            ELSE index[p]
                 /\ (((f \in StatusPaths /\ wt[f] # Absent) \/ isdir) /\ ignored_path(f))
                       => /\ result'.status = "ok"
                          /\ index' = index
                          /\ staged_blobs' = staged_blobs]_vars


\* C40: initializing a repository that is already initialized raises no error
\* and leaves the identifier of the config, the HEAD pointer and the stored
\* data of the default branch as they were.
C40_InitializeAgainPreservesState ==
    [][result'.op = "initialize"
          => /\ result'.status = "ok"
             /\ config'.id = config.id
             /\ HEAD' = HEAD
             /\ "main" \in branch_refs'
             /\ branches_config'.branches["main"] = branches_config.branches["main"]]_vars

====
